---- MODULE Spec2Model ----
(***************************************************************************)
(* Model of the content-moderation pipeline of clip-manager:               *)
(*   src/videoAnalysis.js  (extractFrames, analyzeFrameWithOllama,         *)
(*                          classifyContent, generateAITags,               *)
(*                          cleanupFrames, analyzeVideo)                   *)
(* Classifier texts are strings; the regular expressions of the source are *)
(* evaluated character by character.                                       *)
(***************************************************************************)
EXTENDS Integers, Sequences, FiniteSets, TLC

(***************************************************************************)
(* Text helpers: what the JavaScript string and RegExp primitives do.      *)
(***************************************************************************)

\* Line terminators: the characters '.' does not match (no `s` flag).
LineTerminators == {"\n", "\r"}

\* The characters \s matches and String.prototype.trim removes.
Whitespace == {" ", "\t", "\n", "\r"}

UpperOf ==
    [c \in {"a","b","c","d","e","f","g","h","i","j","k","l","m","n","o","p",
            "q","r","s","t","u","v","w","x","y","z"} |->
        CASE c = "a" -> "A" [] c = "b" -> "B" [] c = "c" -> "C" [] c = "d" -> "D"
          [] c = "e" -> "E" [] c = "f" -> "F" [] c = "g" -> "G" [] c = "h" -> "H"
          [] c = "i" -> "I" [] c = "j" -> "J" [] c = "k" -> "K" [] c = "l" -> "L"
          [] c = "m" -> "M" [] c = "n" -> "N" [] c = "o" -> "O" [] c = "p" -> "P"
          [] c = "q" -> "Q" [] c = "r" -> "R" [] c = "s" -> "S" [] c = "t" -> "T"
          [] c = "u" -> "U" [] c = "v" -> "V" [] c = "w" -> "W" [] c = "x" -> "X"
          [] c = "y" -> "Y" [] c = "z" -> "Z"]

CharAt(t, i) == SubSeq(t, i, i)

\* One character folded to upper case (the `i` flag, toUpperCase).
UpChar(c) == IF c \in DOMAIN UpperOf THEN UpperOf[c] ELSE c

RECURSIVE toUpperCase(_)
toUpperCase(t) ==
    IF Len(t) = 0 THEN ""
    ELSE UpChar(CharAt(t, 1)) \o toUpperCase(SubSeq(t, 2, Len(t)))

\* The literal w matches t at position i, ignoring case.
MatchAt(t, w, i) ==
    /\ i >= 1
    /\ i + Len(w) - 1 <= Len(t)
    /\ toUpperCase(SubSeq(t, i, i + Len(w) - 1)) = toUpperCase(w)

\* No line terminator in t[a..b]: the stretch a '.*?' may cover.
DotSpan(t, a, b) == \A k \in a..b : CharAt(t, k) \notin LineTerminators

\* String.prototype.includes, ignoring case.
Includes(t, w) == \E i \in 1..Len(t) : MatchAt(t, w, i)

(***************************************************************************)
(* The illegal-content predicate of classifyContent.                       *)
(***************************************************************************)

illegalKeywords == {"child", "minor", "underage", "kid", "young child", "prepubescent"}

sexualAlternatives == {"nude", "naked", "sexual", "explicit"}

\* (first).*?(second) with first \in A, second \in B: the second literal
\* starts after the first ends and only '.' characters lie between.
OrderedPair(t, A, B) ==
    \E a \in A :
        \E i \in 1..Len(t) :
            /\ MatchAt(t, a, i)
            /\ \E b \in B :
                   \E j \in (i + Len(a))..Len(t) :
                       /\ MatchAt(t, b, j)
                       /\ DotSpan(t, i + Len(a), j - 1)

\* new RegExp(`(kw).*?(nude|...)|(nude|...).*?(kw)`, 'i').test(result)
keywordRegexTest(keyword, t) ==
    \/ OrderedPair(t, {keyword}, sexualAlternatives)
    \/ OrderedPair(t, sexualAlternatives, {keyword})

hasIllegalContent(t) == \E keyword \in illegalKeywords : keywordRegexTest(keyword, t)

(***************************************************************************)
(* checkForIllegalContent: the repository's test script for the predicate. *)
(***************************************************************************)

testIllegalKeywords ==
    {"child", "minor", "childhood", "children", "underage", "kid", "young child",
     "prepubescent"}

testSexualAlternatives == {"nude", "vagina", "penis", "naked", "sex", "sexual", "explicit"}

\* (first)[\s\S]*?(second): as OrderedPair, with anything in between.
OrderedPairAcrossLines(t, A, B) ==
    \E a \in A :
        \E i \in 1..Len(t) :
            /\ MatchAt(t, a, i)
            /\ \E b \in B :
                   \E j \in (i + Len(a))..Len(t) : MatchAt(t, b, j)

checkForIllegalContent(t) ==
    IF t = "" THEN FALSE
    ELSE \E keyword \in testIllegalKeywords :
            \/ OrderedPairAcrossLines(t, {keyword}, testSexualAlternatives)
            \/ OrderedPairAcrossLines(t, testSexualAlternatives, {keyword})

(***************************************************************************)
(* Rating and reason parsing of classifyContent.                           *)
(***************************************************************************)

Ratings == {"SAFE", "PG-13", "R", "XXX"}

ratingLevels == [x \in Ratings |->
    CASE x = "SAFE" -> 0 [] x = "PG-13" -> 1 [] x = "R" -> 2 [] x = "XXX" -> 3]

\* The alternation (SAFE|PG-13|R|XXX) in the order the regex tries it.
RatingAlternation == <<"SAFE", "PG-13", "R", "XXX">>

NoMatch == "<no match>"

Min(S) == CHOOSE x \in S : \A y \in S : x <= y
Max(S) == CHOOSE x \in S : \A y \in S : x >= y

\* First position at or after i that holds no whitespace (\s* is greedy).
RECURSIVE SkipWhitespace(_, _)
SkipWhitespace(t, i) ==
    IF i <= Len(t) /\ CharAt(t, i) \in Whitespace THEN SkipWhitespace(t, i + 1) ELSE i

\* The alternative matched at position i, or NoMatch.
AlternativeAt(t, i) ==
    LET hits == {k \in 1..Len(RatingAlternation) : MatchAt(t, RatingAlternation[k], i)}
    IN  IF hits = {} THEN NoMatch ELSE RatingAlternation[Min(hits)]

\* result.match(/RATING:\s*(SAFE|PG-13|R|XXX)/i), group 1 upper-cased:
\* the leftmost 'RATING:' after which, past any whitespace, a token follows.
frameRatingOf(t) ==
    LET ps == {p \in 1..Len(t) :
                  /\ MatchAt(t, "RATING:", p)
                  /\ AlternativeAt(t, SkipWhitespace(t, p + 7)) # NoMatch}
    IN  IF ps = {} THEN NoMatch
        ELSE toUpperCase(AlternativeAt(t, SkipWhitespace(t, Min(ps) + 7)))

\* End of the run of '.' characters that starts at i (greedy .+).
RECURSIVE LineEnd(_, _)
LineEnd(t, i) ==
    IF i + 1 <= Len(t) /\ CharAt(t, i + 1) \notin LineTerminators
    THEN LineEnd(t, i + 1) ELSE i

\* Where group 1 of /REASON:\s*(.+)/i starts when 'REASON:' is at p, or 0:
\* \s* takes all the whitespace it can and gives characters back until a
\* '.' character follows.
ReasonStart(t, p) ==
    LET q == p + 7
        e == SkipWhitespace(t, q)
        cs == {s \in q..e : s <= Len(t) /\ CharAt(t, s) \notin LineTerminators}
    IN  IF cs = {} THEN 0 ELSE Max(cs)

RECURSIVE trim(_)
trim(t) ==
    IF Len(t) = 0 THEN t
    ELSE IF CharAt(t, 1) \in Whitespace THEN trim(SubSeq(t, 2, Len(t)))
    ELSE IF CharAt(t, Len(t)) \in Whitespace THEN trim(SubSeq(t, 1, Len(t) - 1))
    ELSE t

\* reasonMatch ? reasonMatch[1].trim() : ''
frameReasonOf(t) ==
    LET ps == {p \in 1..Len(t) : MatchAt(t, "REASON:", p) /\ ReasonStart(t, p) # 0}
    IN  IF ps = {} THEN ""
        ELSE LET s == ReasonStart(t, Min(ps))
             IN  trim(SubSeq(t, s, LineEnd(t, s)))

(***************************************************************************)
(* JavaScript values, as far as parseComfyUIWorkflow tells them apart.     *)
(***************************************************************************)

Undefined == [t |-> "undefined"]

Null == [t |-> "null"]

Str(s) == [t |-> "string", s |-> s]

Num(n) == [t |-> "number", n |-> n]

Bool(b) == [t |-> "boolean", b |-> b]

\* A two-element array [targetId, outputIndex]: a link to another node.
\* (targetId is given as the graph writes the key it names, see Graph.)
Reference(targetId, outputIndex) ==
    [t |-> "array", items |-> <<targetId, Num(outputIndex)>>]

\* An array of values.
List(items) == [t |-> "array", items |-> items]

\* A plain object: fields is a function from the keys present to values.
Object(fields) == [t |-> "object", fields |-> fields]

\* obj.key: undefined when the key is not present.
Get(obj, key) ==
    IF obj.t = "object" /\ key \in DOMAIN obj.fields THEN obj.fields[key] ELSE Undefined

\* ToBoolean: what `if (v)`, `!v`, `a && b`, `a || b` test.
Truthy(v) ==
    CASE v.t = "undefined" -> FALSE
      [] v.t = "null"      -> FALSE
      [] v.t = "string"    -> v.s # ""
      [] v.t = "number"    -> v.n # 0
      [] v.t = "boolean"   -> v.b
      [] OTHER             -> TRUE

\* v.includes is a function: on strings and arrays only.
HasIncludes(v) == v.t \in {"string", "array"}

\* String.prototype.includes (case-sensitive); the empty string is included.
StringIncludes(t, w) ==
    Len(w) = 0 \/ \E i \in 1..Len(t) : i + Len(w) - 1 <= Len(t) /\ SubSeq(t, i, i + Len(w) - 1) = w

\* Template-literal conversion (of the values the model puts in templates).
ToStr(v) ==
    CASE v.t = "string" -> v.s
      [] v.t = "number" -> ToString(v.n)
      [] v.t = "object" -> "[object Object]"
      [] OTHER          -> v.t

\* v.includes(w), once HasIncludes(v): a substring test on a string (the
\* argument converted to a string), an element test on an array.
IncludesValue(v, w) ==
    IF v.t = "string" THEN StringIncludes(v.s, ToStr(w))
    ELSE \E k \in 1..Len(v.items) : v.items[k] = w

\* a || b
Or(a, b) == IF Truthy(a) THEN a ELSE b

(***************************************************************************)
(* parseComfyUIWorkflow: the callback of Object.values(...).forEach, rule  *)
(* by rule.  A rule yields the updated record, or TypeError when it throws. *)
(***************************************************************************)

TypeError == [t |-> "TypeError"]

\* Stands for the CJK literal the source tests for (three characters that
\* mean 'low quality'), which a TLA+ string cannot hold.
LowQualityMarker == "<low quality, CJK>"

\* const parsed = { prompt: null, ..., clipModel: null }; aspectRatio is
\* not a member until the aspect-ratio rule assigns it.
parsedInit ==
    [prompt |-> Null, negativePrompt |-> Null, model |-> Null, loras |-> <<>>,
     steps |-> Null, cfg |-> Null, seed |-> Null, sampler |-> Null,
     scheduler |-> Null, resolution |-> Null, frameRate |-> Null,
     numFrames |-> Null, vaeModel |-> Null, clipModel |-> Null,
     aspectRatio |-> Undefined]

\* Mutant: the rule is applied also when a prompt is already set.
textEncoder_lastWins(p, inputs, classType) ==
    LET text == Get(inputs, "text")
    IN  IF classType = Str("CLIPTextEncode") /\ Truthy(text)
        THEN IF /\ text.t = "string"
                /\ Len(text.s) > 10
                /\ ~StringIncludes(text.s, LowQualityMarker)
                /\ ~StringIncludes(text.s, "worst quality")
             THEN [p EXCEPT !.prompt = text]
             ELSE IF text.t = "string" /\ StringIncludes(text.s, LowQualityMarker)
             THEN [p EXCEPT !.negativePrompt = text]
             ELSE p
        ELSE p

\* CLIPTextEncode
textEncoder(p, inputs, classType) ==
    LET text == Get(inputs, "text")
    IN  IF classType = Str("CLIPTextEncode") /\ Truthy(text) /\ ~Truthy(p.prompt)
        THEN IF /\ text.t = "string"
                /\ Len(text.s) > 10
                /\ ~StringIncludes(text.s, LowQualityMarker)
                /\ ~StringIncludes(text.s, "worst quality")
             THEN [p EXCEPT !.prompt = text]
             ELSE IF text.t = "string" /\ StringIncludes(text.s, LowQualityMarker)
             THEN [p EXCEPT !.negativePrompt = text]
             ELSE p
        ELSE p

\* Mutant: the wildcard text is taken only while no prompt is set.
wildcardProcessor_ifUnset(p, inputs, classType) ==
    IF /\ classType = Str("ImpactWildcardProcessor")
       /\ Truthy(Get(inputs, "populated_text"))
       /\ ~Truthy(p.prompt)
    THEN [p EXCEPT !.prompt = Get(inputs, "populated_text")]
    ELSE p

\* ImpactWildcardProcessor
wildcardProcessor(p, inputs, classType) ==
    IF classType = Str("ImpactWildcardProcessor") /\ Truthy(Get(inputs, "populated_text"))
    THEN [p EXCEPT !.prompt = Get(inputs, "populated_text")]
    ELSE p

\* WanVideoModelLoader: !parsed.model || inputs.model.includes('HIGH')
modelLoader(p, inputs, classType) ==
    LET model == Get(inputs, "model")
    IN  IF classType = Str("WanVideoModelLoader") /\ Truthy(model)
        THEN IF ~Truthy(p.model) THEN [p EXCEPT !.model = model]
             ELSE IF ~HasIncludes(model) THEN TypeError
             ELSE IF IncludesValue(model, Str("HIGH")) THEN [p EXCEPT !.model = model]
             ELSE p
        ELSE p

\* UnetLoaderGGUF
unetLoader(p, inputs, classType) ==
    LET unet_name == Get(inputs, "unet_name")
    IN  IF classType = Str("UnetLoaderGGUF") /\ Truthy(unet_name)
        THEN IF ~Truthy(p.model) THEN [p EXCEPT !.model = unet_name]
             ELSE IF ~HasIncludes(p.model) THEN TypeError
             ELSE IF ~IncludesValue(p.model, unet_name)
             THEN [p EXCEPT !.model = Str(ToStr(p.model) \o " + " \o ToStr(unet_name))]
             ELSE p
        ELSE p

\* CheckpointLoaderSimple
checkpointLoader(p, inputs, classType) ==
    IF /\ classType = Str("CheckpointLoaderSimple")
       /\ Truthy(Get(inputs, "ckpt_name"))
       /\ ~Truthy(p.model)
    THEN [p EXCEPT !.model = Get(inputs, "ckpt_name")]
    ELSE p

\* Mutant: the selector's name is appended without the 'none' test.
loraSelect_keepsNone(p, inputs, classType) ==
    LET lora == Get(inputs, "lora")
    IN  IF /\ classType \in {Str("WanVideoLoraSelect"), Str("WanVideoLoraSelectMulti")}
           /\ Truthy(lora)
        THEN [p EXCEPT !.loras = Append(@,
                 [name |-> lora,
                  strength |-> Or(Or(Get(inputs, "strength"), Get(inputs, "strength_0")),
                                  Num(1))])]
        ELSE p

\* WanVideoLoraSelect / WanVideoLoraSelectMulti
loraSelect(p, inputs, classType) ==
    LET lora == Get(inputs, "lora")
    IN  IF /\ classType \in {Str("WanVideoLoraSelect"), Str("WanVideoLoraSelectMulti")}
           /\ Truthy(lora)
           /\ lora # Str("none")
        THEN [p EXCEPT !.loras = Append(@,
                 [name |-> lora,
                  strength |-> Or(Or(Get(inputs, "strength"), Get(inputs, "strength_0")),
                                  Num(1))])]
        ELSE p

\* LoraLoader / LoraLoaderModelOnly
loraLoader(p, inputs, classType) ==
    IF /\ classType \in {Str("LoraLoader"), Str("LoraLoaderModelOnly")}
       /\ Truthy(Get(inputs, "lora_name"))
    THEN [p EXCEPT !.loras = Append(@,
             [name |-> Get(inputs, "lora_name"),
              strength |-> Or(Or(Get(inputs, "strength_model"),
                                 Get(inputs, "strength_clip")), Num(1))])]
    ELSE p

\* inputs.loras.forEach(l => ...): l.active throws when l is null or
\* undefined.
RECURSIVE loraManagerEntries(_, _)
loraManagerEntries(p, items) ==
    IF p = TypeError \/ Len(items) = 0 THEN p
    ELSE LET l == Head(items)
             q == IF l.t \in {"null", "undefined"} THEN TypeError
                  ELSE IF Get(l, "active") # Bool(FALSE) /\ Truthy(Get(l, "name"))
                  THEN [p EXCEPT !.loras = Append(@,
                           [name |-> Get(l, "name"),
                            strength |-> Or(Get(l, "strength"), Num(1))])]
                  ELSE p
         IN  loraManagerEntries(q, Tail(items))

\* Lora Loader (LoraManager)
loraManager(p, inputs, classType) ==
    LET loras == Get(inputs, "loras")
    IN  IF /\ classType = Str("Lora Loader (LoraManager)")
           /\ Truthy(loras)
           /\ loras.t = "array"
        THEN loraManagerEntries(p, loras.items)
        ELSE p

\* WanVideoSampler
sampler(p, inputs, classType) ==
    IF classType = Str("WanVideoSampler")
    THEN [p EXCEPT
            !.steps = IF Truthy(Get(inputs, "steps")) THEN Get(inputs, "steps") ELSE @,
            !.cfg = IF Truthy(Get(inputs, "cfg")) THEN Get(inputs, "cfg") ELSE @,
            !.seed = IF Get(inputs, "seed") # Undefined THEN Get(inputs, "seed") ELSE @,
            !.scheduler = IF Truthy(Get(inputs, "scheduler"))
                          THEN Get(inputs, "scheduler") ELSE @]
    ELSE p

\* WanVideoVAELoader, CLIPLoader, VHS_VideoCombine
loadersAndCombine(p, inputs, classType) ==
    IF classType = Str("WanVideoVAELoader") /\ Truthy(Get(inputs, "model_name"))
    THEN [p EXCEPT !.vaeModel = Get(inputs, "model_name")]
    ELSE IF classType = Str("CLIPLoader") /\ Truthy(Get(inputs, "clip_name"))
    THEN [p EXCEPT !.clipModel = Get(inputs, "clip_name")]
    ELSE IF classType = Str("VHS_VideoCombine") /\ Truthy(Get(inputs, "frame_rate"))
    THEN [p EXCEPT !.frameRate = Get(inputs, "frame_rate")]
    ELSE p

\* WanVideoEmptyEmbeds and the aspect-ratio calculator (whose class name
\* ends in a pictograph, left out here).
embedsAndAspectRatio(p, inputs, classType) ==
    IF classType = Str("WanVideoEmptyEmbeds")
    THEN [p EXCEPT
            !.numFrames = IF Truthy(Get(inputs, "num_frames"))
                          THEN Get(inputs, "num_frames") ELSE @,
            !.resolution = IF Truthy(Get(inputs, "width")) /\ Truthy(Get(inputs, "height"))
                           THEN Str(ToStr(Get(inputs, "width")) \o "x"
                                        \o ToStr(Get(inputs, "height")))
                           ELSE @]
    ELSE IF classType = Str("Width and height from aspect ratio")
    THEN [p EXCEPT !.aspectRatio = Get(inputs, "aspect_ratio")]
    ELSE p

\* The forEach callback on one node: the rules in source order; a rule
\* that throws ends the call.
forEachCallback(p, node) ==
    IF ~Truthy(node) \/ ~Truthy(Get(node, "inputs")) THEN p
    ELSE LET inputs == Get(node, "inputs")
             classType == Get(node, "class_type")
             p1 == wildcardProcessor(textEncoder(p, inputs, classType), inputs, classType)
             p2 == modelLoader(p1, inputs, classType)
             p3 == IF p2 = TypeError THEN TypeError ELSE unetLoader(p2, inputs, classType)
             p4 == IF p3 = TypeError THEN TypeError
                   ELSE loraLoader(loraSelect(checkpointLoader(p3, inputs, classType),
                                              inputs, classType), inputs, classType)
             p5 == IF p4 = TypeError THEN TypeError ELSE loraManager(p4, inputs, classType)
         IN  IF p5 = TypeError THEN TypeError
             ELSE embedsAndAspectRatio(
                      loadersAndCombine(sampler(p5, inputs, classType), inputs, classType),
                      inputs, classType)

\* typeof v
TypeOf(v) == IF v.t \in {"null", "array"} THEN "object" ELSE v.t

\* A graph as JSON.parse builds it from its text: entries in the order the
\* text declares them.  A key is Num(n) when it is a canonical array index
\* ("88"), Str(s) otherwise.
Graph(entries) == [t |-> "object", entries |-> entries]

\* The entries whose keys are array indices, in ascending numeric order.
RECURSIVE IndexEntries(_)
IndexEntries(entries) ==
    LET ix == {k \in 1..Len(entries) : entries[k].key.t = "number"}
    IN  IF ix = {} THEN <<>>
        ELSE LET m == CHOOSE k \in ix : \A j \in ix : entries[k].key.n <= entries[j].key.n
             IN  <<entries[m]>> \o
                 IndexEntries(SubSeq(entries, 1, m - 1) \o SubSeq(entries, m + 1, Len(entries)))

\* Object.values / Object.keys order: array-index keys ascending, then the
\* other keys in insertion order; for an array, its elements in order.
ObjectValues(v) ==
    IF "entries" \in DOMAIN v
    THEN IndexEntries(v.entries) \o SelectSeq(v.entries, LAMBDA e : e.key.t = "string")
    ELSE [k \in 1..Len(v.items) |-> [key |-> Num(k - 1), value |-> v.items[k]]]

(***************************************************************************)
(* State.                                                                  *)
(***************************************************************************)

\* Bound: the number of videos whose runs may overlap in the upload directory.
NumVideos == 2

\* classifyContent: extractFrames(videoPath, 3)
ClassifyNumFrames == 3

\* FRAMES_TO_ANALYZE = parseInt(process.env.FRAMES_TO_ANALYZE) || 3
FRAMES_TO_ANALYZE == 3

Videos == 1..NumVideos

\* frame_<i>.jpg in <upload dir>/.frames, i = 1..numFrames
Frames == 1..ClassifyNumFrames

\* Run 1 is a classifyContent call; run 2, when present, overlaps it.
Runs == {1, 2}

\* What the vision model says about a frame when it answers with text.
Texts == { "RATING: SAFE\nREASON: ok",
           "RATING: R\nREASON: nudity",
           "rating: pg-13",
           "RATING: XXX\nREASON: naked kid",
           "a child\nis naked",
           "naked child",
           "RATING: R\nREASON: gore" }

DefaultText == "RATING: SAFE\nREASON: ok"

\* What the loop body of classifyContent computes from a result, per text.
Analysis ==
    [t \in Texts |-> [ratingMatch |-> frameRatingOf(t),
                      frameReason |-> frameReasonOf(t),
                      hasIllegalContent |-> hasIllegalContent(t)]]

NoFile == 0

VARIABLES
    enableModeration,   \* process.env.ENABLE_CONTENT_MODERATION === 'true'
    enableAutoTagging,  \* ENABLE_AUTO_TAGGING
    ollamaAvailable,    \* the module-level flag
    checkPc,            \* the start-up checkOllamaAvailability(): "pending" | "done"
    reliable,           \* the environment never fails (disk, ffmpeg, model server)
    files,              \* .frames/frame_<i>.jpg: NoFile, or the run that wrote it
    dirExists,          \* the .frames directory exists
    frameText,          \* [video][frame]: the classifier's text for that frame
    kind,               \* run -> "classify" | "tags"
    video,              \* run -> the video it was called with
    pc,                 \* run -> its position
    ext,                \* run -> frame -> state of that frame's ffmpeg command
    wrote,              \* run -> frame -> its ffmpeg command wrote the file
    framePaths,         \* run -> the list extractFrames builds
    framesExtracted,    \* run -> extractFrames' counter
    idx,                \* run -> index into framePaths of the per-frame loop
    inflight,           \* run -> writer of the frame read for the pending call
    maxRating,          \* run -> classifyContent's maxRating
    ratingReason,       \* run -> classifyContent's ratingReason
    after,              \* run -> what follows cleanupFrames: "reject" | "final"
    cidx,               \* run -> index of cleanupFrames' loop
    verdict,            \* run -> what classifyContent returned
    aiTags,             \* run -> generateAITags' allTags, by the video described
    reads,              \* history: run -> <<frame, writer or NoFile>> per fs.readFile
    threw,              \* history: run -> where an exception reached the catch block
    seen,               \* history: run -> the texts the classifier returned
    parsed,             \* history: run -> the ratings parsed, one per inspected text
    unlinked,           \* history: run -> frames whose deletion was attempted
    availAtCall,        \* history: run -> ollamaAvailable when the run was called
    ptext,              \* predicate harness: the text under test
    pres,               \* predicate harness: results, "unset" until computed
    workflowData,       \* parseComfyUIWorkflow: its argument
    wfPc,               \* parseComfyUIWorkflow: "idle" | "forEach" | "returned" | "threw"
    nodes,              \* parseComfyUIWorkflow: what Object.values iterates, with keys
    ni,                 \* parseComfyUIWorkflow: position of forEach
    parsedWf,           \* parseComfyUIWorkflow: its `parsed` record
    reqFile,            \* POST /api/upload: req.file is set
    inUploadDir,        \* the uploaded file is in UPLOAD_DIR
    formatTags,         \* the container's format tags (rawMetadata.format.tags)
    metadata,           \* what extractComfyUIMetadata returned
    basicTags,          \* what generateBasicTags returned
    analysis,           \* what analyzeVideo returned
    allTags,            \* [...basicTags, ...analysis.aiTags]
    videosTable,        \* rows of the videos table: the metadata column
    tagsTable,          \* rows of the tags table
    srvPc,              \* position of the request handler
    response            \* what the handler answered: status and body

cfgVars  == <<enableModeration, enableAutoTagging, ollamaAvailable, checkPc, reliable>>
fsVars   == <<files, dirExists>>
idVars   == <<frameText, kind, video>>
extVars  == <<ext, wrote, framePaths, framesExtracted>>
loopVars == <<idx, inflight, maxRating, ratingReason, aiTags>>
endVars  == <<after, cidx, verdict>>
histVars == <<reads, threw, seen, parsed, unlinked, availAtCall>>
predVars == <<ptext, pres>>
graphVars == <<workflowData, wfPc, nodes, ni, parsedWf>>

\* What the moderation pipeline leaves alone.
serverVars == <<reqFile, inUploadDir, formatTags, metadata, basicTags, analysis, allTags,
                videosTable, tagsTable, srvPc, response>>
otherVars == <<predVars, graphVars, serverVars>>

vars == <<cfgVars, fsVars, idVars, pc, extVars, loopVars, endVars, histVars, otherVars>>

\* The outcomes of an environment call: all of them, or only the good one
\* when the environment is reliable.
Outcomes(all, good) == IF reliable THEN {good} ELSE all

NoVerdict == [rating |-> "-", reason |-> "-", isLegal |-> FALSE]

DisabledVerdict ==
    [rating |-> "SAFE", reason |-> "Content moderation disabled", isLegal |-> TRUE]

UnavailableVerdict ==
    [rating |-> "SAFE", reason |-> "Ollama not available - defaulting to safe",
     isLegal |-> TRUE]

ErrorVerdict ==
    [rating |-> "SAFE", reason |-> "Classification error - defaulting to safe",
     isLegal |-> TRUE]

RejectedVerdict ==
    [rating |-> "REJECTED", reason |-> "Potentially illegal content detected",
     isLegal |-> FALSE]

(***************************************************************************)
(* Initial states.                                                         *)
(***************************************************************************)

\* Everything but the scenario: nothing extracted, no run called yet.
InitRest ==
    /\ files = [i \in Frames |-> NoFile]
    /\ dirExists = FALSE
    /\ ext = [r \in Runs |-> [i \in Frames |-> "idle"]]
    /\ wrote = [r \in Runs |-> [i \in Frames |-> FALSE]]
    /\ framePaths = [r \in Runs |-> <<>>]
    /\ framesExtracted = [r \in Runs |-> 0]
    /\ idx = [r \in Runs |-> 0]
    /\ inflight = [r \in Runs |-> NoFile]
    /\ maxRating = [r \in Runs |-> "SAFE"]
    /\ ratingReason = [r \in Runs |-> "Clean content"]
    /\ after = [r \in Runs |-> "-"]
    /\ cidx = [r \in Runs |-> 0]
    /\ verdict = [r \in Runs |-> NoVerdict]
    /\ aiTags = [r \in Runs |-> {}]
    /\ reads = [r \in Runs |-> <<>>]
    /\ threw = [r \in Runs |-> "-"]
    /\ seen = [r \in Runs |-> <<>>]
    /\ parsed = [r \in Runs |-> <<>>]
    /\ unlinked = [r \in Runs |-> {}]
    /\ availAtCall = [r \in Runs |-> FALSE]

PredIdle ==
    /\ ptext = ""
    /\ pres = [has |-> "unset", check |-> "unset"]

\* parseComfyUIWorkflow is not called.
GraphIdle ==
    /\ workflowData = Undefined
    /\ wfPc = "absent"
    /\ nodes = <<>>
    /\ ni = 0
    /\ parsedWf = parsedInit

\* No request is being handled.
ServerIdle ==
    /\ reqFile = FALSE
    /\ inUploadDir = FALSE
    /\ formatTags = Undefined
    /\ metadata = Undefined
    /\ basicTags = <<>>
    /\ analysis = Undefined
    /\ allTags = <<>>
    /\ videosTable = <<>>
    /\ tagsTable = <<>>
    /\ srvPc = "absent"
    /\ response = Undefined

OthersIdle == PredIdle /\ GraphIdle /\ ServerIdle

\* One upload: analyzeVideo(video 1) with auto-tagging off, so that only
\* classifyContent extracts frames.  The start-up availability check may
\* complete before or after the call.
Init ==
    /\ enableModeration \in BOOLEAN
    /\ enableAutoTagging = FALSE
    /\ ollamaAvailable = FALSE
    /\ checkPc = "pending"
    /\ reliable = FALSE
    /\ frameText \in [Videos -> [Frames -> Texts]]
    /\ \A v \in Videos \ {1} : \A i \in Frames : frameText[v][i] = DefaultText
    /\ kind = [r \in Runs |-> "classify"]
    /\ video = [r \in Runs |-> r]
    /\ pc = [r \in Runs |-> IF r = 1 THEN "idle" ELSE "absent"]
    /\ InitRest
    /\ OthersIdle

(***************************************************************************)
(* checkOllamaAvailability                                                 *)
(***************************************************************************)

\* hasVisionModel is FALSE also when the fetch fails or the reply is not ok.
checkOllamaAvailability ==
    /\ checkPc = "pending"
    /\ \E hasVisionModel \in BOOLEAN :
          ollamaAvailable' = IF hasVisionModel THEN TRUE ELSE ollamaAvailable
    /\ checkPc' = "done"
    /\ UNCHANGED <<enableModeration, enableAutoTagging, reliable, fsVars, idVars, pc,
                   extVars, loopVars, endVars, histVars, otherVars>>

(***************************************************************************)
(* classifyContent: the call, up to the first await inside extractFrames.  *)
(***************************************************************************)

\* Mutant: the catch block rethrows, the caller sees the exception.
caughtVerdict_rethrown ==
    [rating |-> "<exception>", reason |-> "<exception>", isLegal |-> FALSE]

\* What the catch block of classifyContent returns.
caughtVerdict == ErrorVerdict

\* An exception or a rejected promise inside the try block, raised at `at`:
\* the catch block returns (generateAITags returns []).
Caught(r, at) ==
    /\ pc' = [pc EXCEPT ![r] = "done"]
    /\ verdict' = [verdict EXCEPT ![r] = IF kind[r] = "classify" THEN caughtVerdict ELSE @]
    /\ threw' = [threw EXCEPT ![r] = at]

\* Mutant: the availability test is left out.
backendUnavailable_skipped == FALSE

\* Mutant: the flag counts only once the startup check has completed.
backendUnavailable_onlyAfterCheck == checkPc = "done" /\ ~ollamaAvailable

\* if (!ollamaAvailable)
backendUnavailable == ~ollamaAvailable

classifyContent(r) ==
    /\ pc[r] = "idle"
    /\ kind[r] = "classify"
    /\ availAtCall' = [availAtCall EXCEPT ![r] = ollamaAvailable]
    /\ IF ~enableModeration
       THEN /\ pc' = [pc EXCEPT ![r] = "done"]
            /\ verdict' = [verdict EXCEPT ![r] = DisabledVerdict]
            /\ UNCHANGED <<dirExists, threw>>
       ELSE IF backendUnavailable
       THEN /\ pc' = [pc EXCEPT ![r] = "done"]
            /\ verdict' = [verdict EXCEPT ![r] = UnavailableVerdict]
            /\ UNCHANGED <<dirExists, threw>>
       ELSE \E mkdirOk \in Outcomes(BOOLEAN, TRUE) :
               IF mkdirOk
               THEN /\ pc' = [pc EXCEPT ![r] = "probe"]
                    /\ dirExists' = TRUE
                    /\ UNCHANGED <<verdict, threw>>
               ELSE /\ Caught(r, "mkdir")
                    /\ UNCHANGED dirExists
    /\ UNCHANGED <<cfgVars, files, idVars, extVars, loopVars, after, cidx,
                   reads, seen, parsed, unlinked, otherVars>>

(***************************************************************************)
(* extractFrames                                                           *)
(***************************************************************************)

numFramesOf(r) == IF kind[r] = "classify" THEN ClassifyNumFrames ELSE FRAMES_TO_ANALYZE

\* The ffprobe callback: reject on error, else start one screenshot command
\* per frame, all of them before any has completed.
ffprobeCallback(r) ==
    /\ pc[r] = "probe"
    /\ \E err \in Outcomes(BOOLEAN, FALSE) :
          IF err
          THEN /\ Caught(r, "ffprobe")
               /\ UNCHANGED ext
          ELSE /\ ext' = [ext EXCEPT ![r] = [i \in Frames |->
                              IF i <= numFramesOf(r) THEN "running" ELSE "idle"]]
               /\ pc' = [pc EXCEPT ![r] = "extracting"]
               /\ UNCHANGED <<verdict, threw>>
    /\ UNCHANGED <<cfgVars, fsVars, idVars, wrote, framePaths, framesExtracted,
                   loopVars, after, cidx, reads, seen, parsed, unlinked, availAtCall,
                   otherVars>>

\* The screenshot command of frame i writes .frames/frame_<i>.jpg, before
\* or after its 'end' event is delivered.
ffmpegWritesFrame(r, i) ==
    /\ ext[r][i] \in {"running", "ended"}
    /\ ~wrote[r][i]
    /\ wrote' = [wrote EXCEPT ![r][i] = TRUE]
    /\ files' = [files EXCEPT ![i] = r]
    /\ dirExists' = TRUE
    /\ UNCHANGED <<cfgVars, idVars, pc, ext, framePaths, framesExtracted,
                   loopVars, endVars, histVars, otherVars>>

\* In a reliable environment the file is on disk when 'end' is delivered.
onEndEvent(r, i) ==
    /\ ext[r][i] = "running"
    /\ reliable => wrote[r][i]
    /\ ext' = [ext EXCEPT ![r][i] = "ended"]
    /\ UNCHANGED <<cfgVars, fsVars, idVars, pc, wrote, framePaths, framesExtracted,
                   loopVars, endVars, histVars, otherVars>>

\* Mutant: the promise is resolved by the first handler that has a path.
Settle_firstPath(r, paths, n) ==
    IF Len(paths) > 0
    THEN /\ pc' = [pc EXCEPT ![r] = "loop"]
         /\ idx' = [idx EXCEPT ![r] = 1]
         /\ UNCHANGED <<verdict, threw>>
    ELSE IF n = numFramesOf(r)
         THEN /\ Caught(r, "no frames")
              /\ UNCHANGED idx
         ELSE UNCHANGED <<pc, idx, verdict, threw>>

\* framesExtracted === numFrames: resolve with the paths, or reject.
Settle(r, paths, n) ==
    IF n = numFramesOf(r)
    THEN IF Len(paths) > 0
         THEN /\ pc' = [pc EXCEPT ![r] = "loop"]
              /\ idx' = [idx EXCEPT ![r] = 1]
              /\ UNCHANGED <<verdict, threw>>
         ELSE /\ Caught(r, "no frames")
              /\ UNCHANGED idx
    ELSE UNCHANGED <<pc, idx, verdict, threw>>

\* The 'end' handler without the polling: the frame is counted as written on
\* the completion signal alone.
waitForFile_noPoll(r, i) ==
    /\ ext[r][i] = "ended"
    /\ files[i] # NoFile \/ wrote[r][i] \/ ~reliable
    /\ LET paths == Append(framePaths[r], i)
       IN  /\ ext' = [ext EXCEPT ![r][i] = "ok"]
           /\ framePaths' = [framePaths EXCEPT ![r] = paths]
           /\ framesExtracted' = [framesExtracted EXCEPT ![r] = @ + 1]
           /\ Settle(r, paths, framesExtracted[r] + 1)
    /\ UNCHANGED <<cfgVars, fsVars, idVars, wrote, inflight, maxRating, ratingReason,
                   aiTags, after, cidx, reads, seen, parsed, unlinked, availAtCall,
                   otherVars>>

\* The rest of the 'end' handler: waitForFile polls fs.access until the path
\* is readable or the attempts are used up, then the frame is counted.  In a
\* reliable environment the file is written before the attempts are used up.
waitForFile(r, i) ==
    /\ ext[r][i] = "ended"
    /\ files[i] # NoFile \/ wrote[r][i] \/ ~reliable
    /\ LET fileExists == files[i] # NoFile
           paths == IF fileExists THEN Append(framePaths[r], i) ELSE framePaths[r]
       IN  /\ ext' = [ext EXCEPT ![r][i] = IF fileExists THEN "ok" ELSE "failed"]
           /\ framePaths' = [framePaths EXCEPT ![r] = paths]
           /\ framesExtracted' = [framesExtracted EXCEPT ![r] = @ + 1]
           /\ Settle(r, paths, framesExtracted[r] + 1)
    /\ UNCHANGED <<cfgVars, fsVars, idVars, wrote, inflight, maxRating, ratingReason,
                   aiTags, after, cidx, reads, seen, parsed, unlinked, availAtCall,
                   otherVars>>

onErrorEvent(r, i) ==
    /\ ~reliable
    /\ ext[r][i] = "running"
    /\ ~wrote[r][i]
    /\ ext' = [ext EXCEPT ![r][i] = "failed"]
    /\ framesExtracted' = [framesExtracted EXCEPT ![r] = @ + 1]
    /\ Settle(r, framePaths[r], framesExtracted[r] + 1)
    /\ UNCHANGED <<cfgVars, fsVars, idVars, wrote, framePaths, inflight, maxRating,
                   ratingReason, aiTags, after, cidx, reads, seen, parsed, unlinked,
                   availAtCall, otherVars>>

(***************************************************************************)
(* analyzeFrameWithOllama and the per-frame loop of classifyContent        *)
(***************************************************************************)

\* fs.readFile of the next path and, when it succeeds, the POST to the
\* model.  A failed read is caught inside and makes the result null.
analyzeFrameWithOllama(r) ==
    /\ pc[r] = "loop"
    /\ LET f == framePaths[r][idx[r]]
       IN  /\ inflight' = [inflight EXCEPT ![r] = files[f]]
           /\ reads' = [reads EXCEPT ![r] = Append(@, <<f, files[f]>>)]
    /\ pc' = [pc EXCEPT ![r] = "classifying"]
    /\ UNCHANGED <<cfgVars, fsVars, idVars, extVars, idx, maxRating, ratingReason,
                   aiTags, endVars, threw, seen, parsed, unlinked, availAtCall, otherVars>>

\* What the await can deliver: null (request failed, reply not ok, empty
\* response), the model's text, or a truthy response that is not a string.
Responses(r) ==
    IF inflight[r] = NoFile THEN {"null"} ELSE Outcomes({"null", "text", "nonstring"}, "text")

\* for (const framePath of framePaths): next path, or leave the loop.
NextFrame(r) ==
    IF idx[r] < Len(framePaths[r])
    THEN /\ idx' = [idx EXCEPT ![r] = @ + 1]
         /\ pc' = [pc EXCEPT ![r] = "loop"]
         /\ UNCHANGED <<after, cidx>>
    ELSE /\ pc' = [pc EXCEPT ![r] = "cleanup"]
         /\ after' = [after EXCEPT ![r] = "final"]
         /\ cidx' = [cidx EXCEPT ![r] = 1]
         /\ UNCHANGED idx

\* Mutant: the match is noted nowhere and the loop goes on.
hardReject_continue(r) == NextFrame(r)

\* Mutant: the rejection is returned without cleanupFrames.
hardReject_noCleanup(r) ==
    /\ pc' = [pc EXCEPT ![r] = "cleanup"]
    /\ after' = [after EXCEPT ![r] = "reject"]
    /\ cidx' = [cidx EXCEPT ![r] = Len(framePaths[r]) + 1]
    /\ UNCHANGED idx

\* Mutant: the predicate counts only inside the branch of a parsed rating.
hardReject_ifRated(r) ==
    IF parsed'[r][Len(parsed'[r])] # NoMatch
    THEN /\ pc' = [pc EXCEPT ![r] = "cleanup"]
         /\ after' = [after EXCEPT ![r] = "reject"]
         /\ cidx' = [cidx EXCEPT ![r] = 1]
         /\ UNCHANGED idx
    ELSE NextFrame(r)

\* if (hasIllegalContent) { await cleanupFrames(framePaths); return ... }
hardReject(r) ==
    /\ pc' = [pc EXCEPT ![r] = "cleanup"]
    /\ after' = [after EXCEPT ![r] = "reject"]
    /\ cidx' = [cidx EXCEPT ![r] = 1]
    /\ UNCHANGED idx

\* Mutant: every parsed rating replaces the running one.
RaisesMax_lastWins(frameRating, current) == frameRating # NoMatch

\* Mutant: a frame rated as high as the running maximum replaces it too.
RaisesMax_equalReplaces(frameRating, current) ==
    frameRating # NoMatch /\ ratingLevels[frameRating] >= ratingLevels[current]

\* ratingLevels[frameRating] > ratingLevels[maxRating]
RaisesMax(frameRating, current) ==
    frameRating # NoMatch /\ ratingLevels[frameRating] > ratingLevels[current]

\* The loop body of classifyContent on one result.
classifyFrameResult(r) ==
    /\ pc[r] = "classifying"
    /\ kind[r] = "classify"
    /\ \E resp \in Responses(r) :
          CASE resp = "null" ->
                  /\ NextFrame(r)
                  /\ UNCHANGED <<maxRating, ratingReason, verdict, threw, seen, parsed>>
            [] resp = "nonstring" ->
                  \* result.match is not a function: thrown to the catch block
                  /\ Caught(r, "loop")
                  /\ UNCHANGED <<idx, after, cidx, maxRating, ratingReason, seen, parsed>>
            [] resp = "text" ->
                  LET result == frameText[video[inflight[r]]][framePaths[r][idx[r]]]
                      frameRating == Analysis[result].ratingMatch
                      frameReason == Analysis[result].frameReason
                      raise == RaisesMax(frameRating, maxRating[r])
                  IN  /\ seen' = [seen EXCEPT ![r] = Append(@, result)]
                      /\ parsed' = [parsed EXCEPT ![r] = Append(@, frameRating)]
                      /\ maxRating' = [maxRating EXCEPT ![r] =
                                          IF raise THEN frameRating ELSE @]
                      /\ ratingReason' = [ratingReason EXCEPT ![r] =
                             IF raise
                             THEN IF frameReason # "" THEN frameReason
                                  ELSE "Content classified as " \o frameRating
                             ELSE @]
                      /\ IF Analysis[result].hasIllegalContent
                         THEN hardReject(r)
                         ELSE NextFrame(r)
                      /\ UNCHANGED <<verdict, threw>>
    /\ inflight' = [inflight EXCEPT ![r] = NoFile]
    /\ UNCHANGED <<cfgVars, fsVars, idVars, extVars, aiTags, reads, unlinked,
                   availAtCall, otherVars>>

(***************************************************************************)
(* cleanupFrames, and the return that follows it                           *)
(***************************************************************************)

\* One fs.unlink of cleanupFrames; an error (no such file, not permitted)
\* is ignored and the loop goes on.
unlinkFrame(r) ==
    /\ pc[r] = "cleanup"
    /\ cidx[r] <= Len(framePaths[r])
    /\ LET f == framePaths[r][cidx[r]]
       IN  /\ \E removed \in Outcomes(BOOLEAN, TRUE) :
                 files' = IF removed THEN [files EXCEPT ![f] = NoFile] ELSE files
           /\ unlinked' = [unlinked EXCEPT ![r] = @ \cup {f}]
    /\ cidx' = [cidx EXCEPT ![r] = @ + 1]
    /\ UNCHANGED <<cfgVars, dirExists, idVars, pc, extVars, loopVars, after, verdict,
                   reads, threw, seen, parsed, availAtCall, otherVars>>

\* Mutant: the rejection branch returns the running rating as approved.
returnedVerdict_approves(r) ==
    [rating |-> maxRating[r], reason |-> ratingReason[r], isLegal |-> TRUE]

\* Mutant: the return after the loop approves a SAFE video only.
returnedVerdict_onlySafeLegal(r) ==
    IF after[r] = "reject" THEN RejectedVerdict
    ELSE [rating |-> maxRating[r], reason |-> ratingReason[r],
          isLegal |-> maxRating[r] = "SAFE"]

\* The return statement after cleanupFrames: the one inside the
\* hasIllegalContent branch, or the one after the loop.
returnedVerdict(r) ==
    IF after[r] = "reject" THEN RejectedVerdict
    ELSE [rating |-> maxRating[r], reason |-> ratingReason[r], isLegal |-> TRUE]

\* fs.rmdir of .frames (fails, ignored, while a file is left in it), then
\* the caller's return statement.
cleanupDone(r) ==
    /\ pc[r] = "cleanup"
    /\ cidx[r] > Len(framePaths[r])
    /\ dirExists' = IF \A i \in Frames : files[i] = NoFile THEN FALSE ELSE dirExists
    /\ pc' = [pc EXCEPT ![r] = "done"]
    /\ verdict' = [verdict EXCEPT ![r] =
          IF kind[r] = "classify" THEN returnedVerdict(r) ELSE @]
    /\ UNCHANGED <<cfgVars, files, idVars, extVars, loopVars, after, cidx,
                   histVars, otherVars>>

(***************************************************************************)
(* generateAITags                                                          *)
(***************************************************************************)

generateAITags(r) ==
    /\ pc[r] = "idle"
    /\ kind[r] = "tags"
    /\ availAtCall' = [availAtCall EXCEPT ![r] = ollamaAvailable]
    /\ IF ~enableAutoTagging \/ ~ollamaAvailable
       THEN /\ pc' = [pc EXCEPT ![r] = "done"]
            /\ UNCHANGED dirExists
       ELSE \E mkdirOk \in Outcomes(BOOLEAN, TRUE) :
               /\ pc' = [pc EXCEPT ![r] = IF mkdirOk THEN "probe" ELSE "done"]
               /\ dirExists' = IF mkdirOk THEN TRUE ELSE dirExists
    /\ UNCHANGED <<cfgVars, files, idVars, extVars, loopVars, endVars,
                   reads, threw, seen, parsed, unlinked, otherVars>>

\* The loop body of generateAITags on one description.
tagFrameResult(r) ==
    /\ pc[r] = "classifying"
    /\ kind[r] = "tags"
    /\ \E resp \in Responses(r) :
          CASE resp = "null" ->
                  /\ NextFrame(r)
                  /\ UNCHANGED aiTags
            [] resp = "nonstring" ->
                  \* description.toLowerCase is not a function: return []
                  /\ pc' = [pc EXCEPT ![r] = "done"]
                  /\ aiTags' = [aiTags EXCEPT ![r] = {}]
                  /\ UNCHANGED <<idx, after, cidx>>
            [] resp = "text" ->
                  /\ aiTags' = [aiTags EXCEPT ![r] = @ \cup {video[inflight[r]]}]
                  /\ NextFrame(r)
    /\ inflight' = [inflight EXCEPT ![r] = NoFile]
    /\ UNCHANGED <<cfgVars, fsVars, idVars, extVars, maxRating, ratingReason, verdict,
                   histVars, otherVars>>

(***************************************************************************)
(* Specifications                                                          *)
(***************************************************************************)

Next ==
    \/ checkOllamaAvailability
    \/ \E r \in Runs : classifyContent(r)
    \/ \E r \in Runs : ffprobeCallback(r)
    \/ \E r \in Runs, i \in Frames : ffmpegWritesFrame(r, i)
    \/ \E r \in Runs, i \in Frames : onEndEvent(r, i)
    \/ \E r \in Runs, i \in Frames : waitForFile(r, i)
    \/ \E r \in Runs, i \in Frames : onErrorEvent(r, i)
    \/ \E r \in Runs : analyzeFrameWithOllama(r)
    \/ \E r \in Runs : classifyFrameResult(r)
    \/ \E r \in Runs : unlinkFrame(r)
    \/ \E r \in Runs : cleanupDone(r)

Spec == Init /\ [][Next]_vars

(***************************************************************************)
(* The same program with its callbacks scheduled: every screenshot command *)
(* delivers 'end' or 'error', and the polling of waitForFile is bounded    *)
(* (maxAttempts), so the 'end' handler runs to its end.  One text for all  *)
(* frames of the video.                                                    *)
(***************************************************************************)

InitExtract ==
    /\ Init
    /\ \A i \in Frames : frameText[1][i] = frameText[1][1]

Signals(r) == \E i \in Frames : onEndEvent(r, i) \/ onErrorEvent(r, i)

Polled(r) == \E i \in Frames : waitForFile(r, i)

Scheduled == \A r \in Runs : WF_vars(Signals(r)) /\ WF_vars(Polled(r))

SpecExtract == InitExtract /\ [][Next]_vars /\ Scheduled

(***************************************************************************)
(* The predicate on its own: texts put together from a few pieces.         *)
(***************************************************************************)

\* Bound: the number of pieces a text under test is made of.
MaxPieces == 3

Pieces == {"child", "Kid", "naked", "explicit", "underag", " is ", "\n", "RATING: R"}

RECURSIVE TextsOf(_)
TextsOf(n) ==
    IF n = 0 THEN {""}
    ELSE LET shorter == TextsOf(n - 1)
         IN  shorter \cup {t \o q : t \in shorter, q \in Pieces}

PredTexts == TextsOf(MaxPieces)

InitPred ==
    /\ ptext \in PredTexts
    /\ pres = [has |-> "unset", check |-> "unset"]
    /\ enableModeration = TRUE
    /\ enableAutoTagging = FALSE
    /\ ollamaAvailable = FALSE
    /\ checkPc = "done"
    /\ reliable = TRUE
    /\ frameText = [v \in Videos |-> [i \in Frames |-> DefaultText]]
    /\ kind = [r \in Runs |-> "classify"]
    /\ video = [r \in Runs |-> r]
    /\ pc = [r \in Runs |-> "absent"]
    /\ InitRest
    /\ GraphIdle
    /\ ServerIdle

notPred == <<cfgVars, fsVars, idVars, pc, extVars, loopVars, endVars, histVars, graphVars,
             serverVars>>

\* The predicate as classifyContent evaluates it on a result.
testHasIllegalContent ==
    /\ pres.has = "unset"
    /\ pres' = [pres EXCEPT !.has = IF hasIllegalContent(ptext) THEN "true" ELSE "false"]
    /\ UNCHANGED <<ptext, notPred>>

\* The predicate as the test script evaluates it.
testCheckForIllegalContent ==
    /\ pres.check = "unset"
    /\ pres' = [pres EXCEPT !.check =
                   IF checkForIllegalContent(ptext) THEN "true" ELSE "false"]
    /\ UNCHANGED <<ptext, notPred>>

NextPred == testHasIllegalContent \/ testCheckForIllegalContent

SpecPred == InitPred /\ [][NextPred]_vars

(***************************************************************************)
(* Overlapping runs: run 1 classifies video 1 while run 2 is either the    *)
(* generateAITags call analyzeVideo starts with it on the same video, or   *)
(* the classifyContent call of another upload.  The availability check     *)
(* has completed and found a vision model.                                 *)
(***************************************************************************)

InitConc ==
    /\ enableModeration = TRUE
    /\ enableAutoTagging = TRUE
    /\ ollamaAvailable = TRUE
    /\ checkPc = "done"
    /\ reliable = TRUE
    /\ frameText = [v \in Videos |-> [i \in Frames |-> DefaultText]]
    /\ \E k \in {"classify", "tags"} :
          /\ kind = [r \in Runs |-> IF r = 1 THEN "classify" ELSE k]
          /\ video = [r \in Runs |-> IF r = 1 \/ k = "tags" THEN 1 ELSE 2]
    /\ pc = [r \in Runs |-> "idle"]
    /\ InitRest
    /\ OthersIdle

NextConc ==
    \/ \E r \in Runs : classifyContent(r)
    \/ \E r \in Runs : generateAITags(r)
    \/ \E r \in Runs : ffprobeCallback(r)
    \/ \E r \in Runs, i \in Frames : ffmpegWritesFrame(r, i)
    \/ \E r \in Runs, i \in Frames : onEndEvent(r, i)
    \/ \E r \in Runs, i \in Frames : waitForFile(r, i)
    \/ \E r \in Runs : analyzeFrameWithOllama(r)
    \/ \E r \in Runs : classifyFrameResult(r)
    \/ \E r \in Runs : tagFrameResult(r)
    \/ \E r \in Runs : unlinkFrame(r)
    \/ \E r \in Runs : cleanupDone(r)

SpecConc == InitConc /\ [][NextConc]_vars

(***************************************************************************)
(* parseComfyUIWorkflow on its own: the argument is any of a few values    *)
(* that are no graph, an array, or a graph of up to MaxNodes nodes.        *)
(***************************************************************************)

\* Bound: the number of nodes of a graph.
MaxNodes == 3

\* A node as the graph format writes it.
Node(classType, fields) ==
    Object([class_type |-> Str(classType), inputs |-> Object(fields)])

KeyPool == {Num(7), Num(88), Num(90), Str("a")}

NodePool ==
    { Node("CLIPTextEncode", "text" :> Str("a cat sits on a sofa")),
      Node("CLIPTextEncode", "text" :> Reference(Num(88), 0)),
      Node("PrimitiveStringMultiline", "value" :> Str("A cat sits.")),
      Node("ImpactWildcardProcessor", "populated_text" :> Str("a wild prompt")),
      Node("ImpactWildcardProcessor", "populated_text" :> Str("")),
      Node("UnetLoaderGGUF", "unet_name" :> Str("wan_low.gguf")),
      Node("UnetLoaderGGUF", "unet_name" :> Str("wan")),
      Node("WanVideoLoraSelect", "lora" :> Str("loraA")),
      Node("WanVideoLoraSelectMulti", "lora" :> Str("loraB")),
      Node("WanVideoLoraSelect", "lora" :> Str("none")),
      Node("Lora Loader (LoraManager)", "loras" :> List(<<Null>>)) }

KeysOf(entries) == {entries[k].key : k \in 1..Len(entries)}

\* The entry lists of at most n nodes with distinct keys.
RECURSIVE EntriesUpTo(_)
EntriesUpTo(n) ==
    IF n = 0 THEN {<<>>}
    ELSE LET shorter == EntriesUpTo(n - 1)
         IN  shorter \cup
             {e \in {Append(g, [key |-> k, value |-> v]) :
                        g \in shorter, k \in KeyPool, v \in NodePool} :
                 e[Len(e)].key \notin KeysOf(SubSeq(e, 1, Len(e) - 1))}

\* Arguments that are no graph: scalars and arrays.
OtherInputs ==
    {Null, Undefined, Str("not a graph"), Num(7), List(<<>>), List(<<Null>>)}
        \cup {List(<<v>>) : v \in NodePool}

InitParse ==
    /\ \/ workflowData \in OtherInputs
       \/ workflowData = Graph(<<>>)
       \/ \E g \in EntriesUpTo(MaxNodes - 1), k \in KeyPool, v \in NodePool :
             /\ k \notin KeysOf(g)
             /\ workflowData = Graph(Append(g, [key |-> k, value |-> v]))
    /\ wfPc = "idle"
    /\ nodes = <<>>
    /\ ni = 0
    /\ parsedWf = parsedInit
    /\ enableModeration = TRUE
    /\ enableAutoTagging = FALSE
    /\ ollamaAvailable = FALSE
    /\ checkPc = "done"
    /\ reliable = TRUE
    /\ frameText = [v \in Videos |-> [i \in Frames |-> DefaultText]]
    /\ kind = [r \in Runs |-> "classify"]
    /\ video = [r \in Runs |-> r]
    /\ pc = [r \in Runs |-> "absent"]
    /\ InitRest
    /\ PredIdle
    /\ ServerIdle

notGraph == <<cfgVars, fsVars, idVars, pc, extVars, loopVars, endVars, histVars, predVars,
              serverVars>>

\* The call: the guard on the argument, then Object.values.
parseComfyUIWorkflow ==
    /\ wfPc = "idle"
    /\ parsedWf' = parsedInit
    /\ IF ~Truthy(workflowData) \/ TypeOf(workflowData) # "object"
       THEN /\ wfPc' = "returned"
            /\ UNCHANGED <<nodes, ni>>
       ELSE /\ nodes' = ObjectValues(workflowData)
            /\ ni' = 1
            /\ wfPc' = IF Len(ObjectValues(workflowData)) = 0 THEN "returned" ELSE "forEach"
    /\ UNCHANGED <<workflowData, notGraph>>

\* One turn of forEach; after the last node the function returns parsed.
forEachNode ==
    /\ wfPc = "forEach"
    /\ LET p == forEachCallback(parsedWf, nodes[ni].value)
       IN  IF p = TypeError
           THEN /\ wfPc' = "threw"
                /\ UNCHANGED <<parsedWf, ni>>
           ELSE /\ parsedWf' = p
                /\ ni' = ni + 1
                /\ wfPc' = IF ni = Len(nodes) THEN "returned" ELSE "forEach"
    /\ UNCHANGED <<workflowData, nodes, notGraph>>

NextParse == parseComfyUIWorkflow \/ forEachNode

SpecParse == InitParse /\ [][NextParse]_vars

(***************************************************************************)
(* The same parser on graphs of text-encoder and lora-selector nodes: the  *)
(* texts with and without the two negative markers, and the strength       *)
(* fields present, absent and 0.                                           *)
(***************************************************************************)

RuleNodePool ==
    { Node("CLIPTextEncode", "text" :> Str("a cat sits on a sofa")),
      Node("CLIPTextEncode", "text" :> Str("two dogs run in a park")),
      Node("CLIPTextEncode", "text" :> Str("a cat")),
      Node("CLIPTextEncode", "text" :> Reference(Num(88), 0)),
      Node("CLIPTextEncode", "text" :> Str("worst quality, blurry")),
      Node("CLIPTextEncode", "text" :> Str(LowQualityMarker \o ", blurry")),
      Node("WanVideoLoraSelect", "lora" :> Str("loraA")),
      Node("WanVideoLoraSelect",
           ("lora" :> Str("loraC")) @@ ("strength" :> Num(0)) @@ ("strength_0" :> Num(3))),
      Node("WanVideoLoraSelectMulti",
           ("lora" :> Str("loraD")) @@ ("strength_0" :> Num(0))) }

\* The entry lists of at most n nodes of the pool with distinct keys.
RECURSIVE RuleEntriesUpTo(_)
RuleEntriesUpTo(n) ==
    IF n = 0 THEN {<<>>}
    ELSE LET shorter == RuleEntriesUpTo(n - 1)
         IN  shorter \cup
             {e \in {Append(g, [key |-> k, value |-> v]) :
                        g \in shorter, k \in KeyPool, v \in RuleNodePool} :
                 e[Len(e)].key \notin KeysOf(SubSeq(e, 1, Len(e) - 1))}

InitRules ==
    /\ \E g \in RuleEntriesUpTo(MaxNodes - 1), k \in KeyPool, v \in RuleNodePool :
          /\ k \notin KeysOf(g)
          /\ workflowData = Graph(Append(g, [key |-> k, value |-> v]))
    /\ wfPc = "idle"
    /\ nodes = <<>>
    /\ ni = 0
    /\ parsedWf = parsedInit
    /\ enableModeration = TRUE
    /\ enableAutoTagging = FALSE
    /\ ollamaAvailable = FALSE
    /\ checkPc = "done"
    /\ reliable = TRUE
    /\ frameText = [v \in Videos |-> [i \in Frames |-> DefaultText]]
    /\ kind = [r \in Runs |-> "classify"]
    /\ video = [r \in Runs |-> r]
    /\ pc = [r \in Runs |-> "absent"]
    /\ InitRest
    /\ PredIdle
    /\ ServerIdle

SpecRules == InitRules /\ [][NextParse]_vars

(***************************************************************************)
(* JSON texts.  A text is the sequence of its tokens, white space          *)
(* included; JSON.parse and JSON.stringify work on these sequences.        *)
(***************************************************************************)

Punct(c) == [k |-> "punct", v |-> c]

\* One white-space character between tokens.
Ws == [k |-> "ws", v |-> " "]

\* A quoted string, without its quotes.
StrTok(s) == [k |-> "string", v |-> s]

\* A number as the text writes it.
NumTok(s) == [k |-> "number", v |-> s]

\* A bare word: null, and the words that are no JSON (NaN, Infinity,
\* -Infinity).
Lit(s) == [k |-> "literal", v |-> s]

\* The numerals of the texts and the number each one denotes.
NumeralValue == ("1" :> 1) @@ ("1.0" :> 1) @@ ("7" :> 7)

\* The keys that are canonical array indices, and their index.
IndexKeys == ("88" :> 88) @@ ("90" :> 90)

\* A property key as an object holds it (see Graph).
KeyOf(s) == IF s \in DOMAIN IndexKeys THEN Num(IndexKeys[s]) ELSE Str(s)

SyntaxError == [ok |-> FALSE]

\* The position of the first token at or after i that is no white space.
RECURSIVE SkipWs(_, _)
SkipWs(toks, i) ==
    IF i <= Len(toks) /\ toks[i].k = "ws" THEN SkipWs(toks, i + 1) ELSE i

\* obj[key] = value while an object is built: a key met again keeps its
\* place and takes the later value.
Define(entries, key, value) ==
    IF \E j \in 1..Len(entries) : entries[j].key = key
    THEN [j \in 1..Len(entries) |->
            IF entries[j].key = key THEN [key |-> key, value |-> value] ELSE entries[j]]
    ELSE Append(entries, [key |-> key, value |-> value])

\* JSON.parse of the value that starts at or after position i0, and of
\* the members of an object after its '{' or after a ','.
RECURSIVE ParseValue(_, _), ParseMembers(_, _, _)
ParseValue(toks, i0) ==
    LET i == SkipWs(toks, i0)
    IN  IF i > Len(toks) THEN SyntaxError
        ELSE CASE toks[i].k = "string" ->
                    [ok |-> TRUE, value |-> Str(toks[i].v), next |-> i + 1]
               [] toks[i].k = "number" ->
                    [ok |-> TRUE, value |-> Num(NumeralValue[toks[i].v]), next |-> i + 1]
               [] toks[i] = Lit("null") ->
                    [ok |-> TRUE, value |-> Null, next |-> i + 1]
               [] toks[i] = Punct("{") -> ParseMembers(toks, i + 1, <<>>)
               [] OTHER -> SyntaxError

ParseMembers(toks, i0, entries) ==
    LET i == SkipWs(toks, i0)
    IN  IF i > Len(toks) THEN SyntaxError
        ELSE IF toks[i] = Punct("}") /\ entries = <<>>
        THEN [ok |-> TRUE, value |-> Graph(<<>>), next |-> i + 1]
        ELSE IF toks[i].k # "string" THEN SyntaxError
        ELSE LET c == SkipWs(toks, i + 1)
             IN  IF c > Len(toks) \/ toks[c] # Punct(":") THEN SyntaxError
                 ELSE LET r == ParseValue(toks, c + 1)
                      IN  IF ~r.ok THEN SyntaxError
                          ELSE LET e == Define(entries, KeyOf(toks[i].v), r.value)
                                   n == SkipWs(toks, r.next)
                               IN  IF n > Len(toks) THEN SyntaxError
                                   ELSE IF toks[n] = Punct("}")
                                   THEN [ok |-> TRUE, value |-> Graph(e), next |-> n + 1]
                                   ELSE IF toks[n] = Punct(",")
                                   THEN ParseMembers(toks, n + 1, e)
                                   ELSE SyntaxError

\* JSON.parse(text): the value, or SyntaxError (which the callers catch).
JSONParse(toks) ==
    LET r == ParseValue(toks, 1)
    IN  IF r.ok /\ SkipWs(toks, r.next) > Len(toks) THEN r ELSE SyntaxError

\* JSON.stringify(value): no white space, the members in Object.keys order.
RECURSIVE JSONStringify(_), StringifyMembers(_)
JSONStringify(v) ==
    CASE v.t = "string" -> <<StrTok(v.s)>>
      [] v.t = "number" -> <<NumTok(ToString(v.n))>>
      [] v.t = "object" -> <<Punct("{")>> \o StringifyMembers(ObjectValues(v)) \o <<Punct("}")>>
      [] OTHER          -> <<Lit("null")>>

StringifyMembers(entries) ==
    IF entries = <<>> THEN <<>>
    ELSE <<StrTok(ToStr(entries[1].key)), Punct(":")>>
         \o JSONStringify(entries[1].value)
         \o (IF Len(entries) > 1 THEN <<Punct(",")>> ELSE <<>>)
         \o StringifyMembers(Tail(entries))

\* text.replace(/:\s*<word>/g, ': null')
RECURSIVE ReplaceAfterColon(_, _)
ReplaceAfterColon(toks, word) ==
    IF toks = <<>> THEN <<>>
    ELSE LET n == SkipWs(toks, 2)
         IN  IF toks[1] = Punct(":") /\ n <= Len(toks) /\ toks[n] = Lit(word)
             THEN <<Punct(":"), Ws, Lit("null")>>
                  \o ReplaceAfterColon(SubSeq(toks, n + 1, Len(toks)), word)
             ELSE <<toks[1]>> \o ReplaceAfterColon(Tail(toks), word)

\* obj?.key on an object built by JSON.parse.
Member(obj, key) ==
    IF "entries" \in DOMAIN obj /\ \E j \in 1..Len(obj.entries) : obj.entries[j].key = Str(key)
    THEN obj.entries[CHOOSE j \in 1..Len(obj.entries) : obj.entries[j].key = Str(key)].value
    ELSE Undefined

(***************************************************************************)
(* extractComfyUIMetadata, as far as the raw graph goes: the members of    *)
(* comfyData filled from parseComfyUIWorkflow's result do not touch        *)
(* comfyData.workflow and are left out of the document.                    *)
(***************************************************************************)

\* The tag that carries the graph text: formatTags.prompt, or the prompt
\* member (a string) of the JSON in formatTags.comment, or neither.
FormatTags(tag, text) == [tag |-> tag, text |-> text]

\* The three replacements applied to comment.prompt before JSON.parse.
Sanitize(promptString) ==
    ReplaceAfterColon(ReplaceAfterColon(ReplaceAfterColon(promptString, "NaN"),
                                        "Infinity"), "-Infinity")

\* The graph the function parsed from the tags, if it parsed one.
ExtractedGraph(tags) ==
    CASE tags.tag = "prompt"  -> JSONParse(tags.text)
      [] tags.tag = "comment" -> JSONParse(Sanitize(tags.text))
      [] OTHER                -> SyntaxError

\* comfyData.workflow: assigned in the comment branch only.
comfyDataWorkflow(tags) ==
    IF tags.tag = "comment" /\ ExtractedGraph(tags).ok
    THEN ExtractedGraph(tags).value
    ELSE Null

\* return { basic: metadata, comfyui: comfyData }
extractComfyUIMetadata(tags) ==
    Graph(<<[key |-> Str("basic"), value |-> Graph(<<>>)],
            [key |-> Str("comfyui"),
             value |-> Graph(<<[key |-> Str("workflow"),
                               value |-> comfyDataWorkflow(tags)]>>)]>>)

(***************************************************************************)
(* server.js and database.js: POST /api/upload, createVideo, addTags,      *)
(* GET /api/videos/:id/workflow.                                           *)
(***************************************************************************)

\* Bound: the number of nodes in an embedded graph text.
MaxEntries == 2

\* Bound: the number of tags generateBasicTags and generateAITags return.
MaxTags == 2

\* String.prototype.toLowerCase
RECURSIVE toLowerCase(_)
toLowerCase(s) ==
    IF s = "" THEN ""
    ELSE LET c == SubSeq(s, 1, 1)
             lower == {l \in DOMAIN UpperOf : UpperOf[l] = c}
         IN  (IF lower = {} THEN c ELSE CHOOSE l \in lower : TRUE)
             \o toLowerCase(SubSeq(s, 2, Len(s)))

\* A tag object; the confidence is in tenths.
Tag(name, confidence, source) == [name |-> name, confidence |-> confidence, source |-> source]

\* What generateBasicTags can return: filename words at 0.6 and automatic
\* tags at 1.0.
BasicTagPool == {Tag("beach", 6, "filename"), Tag("sunset", 6, "filename"),
                 Tag("short", 10, "auto")}

\* What generateAITags can return: lower-case words at 0.8.
AiTagPool == {Tag("beach", 8, "ollama-ai"), Tag("sunset", 8, "ollama-ai"),
              Tag("woman", 8, "ollama-ai")}

\* The lists of at most n tags of a pool: both generators remove their own
\* duplicates, so no name occurs twice in a list.
RECURSIVE TagLists(_, _)
TagLists(pool, n) ==
    IF n = 0 THEN {<<>>}
    ELSE LET shorter == TagLists(pool, n - 1)
         IN  shorter \cup
             {Append(p[1], p[2]) :
                 p \in {q \in shorter \X pool :
                           \A j \in 1..Len(q[1]) : q[1][j].name # q[2].name}}

\* What classifyContent can return to analyzeVideo.
Verdicts ==
    {DisabledVerdict, UnavailableVerdict, ErrorVerdict, RejectedVerdict,
     [rating |-> "R", reason |-> "nudity", isLegal |-> TRUE]}

\* The graph texts a container can carry.  A node is written
\* {"inputs":{"seed":<value>}}, with or without a space after each colon.
ValueTexts ==
    {<<NumTok("1")>>, <<NumTok("1.0")>>, <<StrTok("cat")>>,
     <<Lit("NaN")>>, <<Lit("Infinity")>>, <<Lit("-Infinity")>>}

TextKeys == {"88", "90", "a"}

Spacings == {<<>>, <<Ws>>}

NodeText(value, sp) ==
    <<Punct("{"), StrTok("inputs"), Punct(":")>> \o sp
    \o <<Punct("{"), StrTok("seed"), Punct(":")>> \o sp \o value
    \o <<Punct("}"), Punct("}")>>

\* The member lists of at most n nodes with distinct keys.
RECURSIVE MembersUpTo(_)
MembersUpTo(n) ==
    IF n = 0 THEN {<<>>}
    ELSE LET shorter == MembersUpTo(n - 1)
         IN  shorter \cup
             {Append(p[1], [key |-> p[2], value |-> p[3]]) :
                 p \in {q \in shorter \X TextKeys \X ValueTexts :
                           \A j \in 1..Len(q[1]) : q[1][j].key # q[2]}}

RECURSIVE MembersText(_, _)
MembersText(members, sp) ==
    IF members = <<>> THEN <<>>
    ELSE <<StrTok(members[1].key), Punct(":")>> \o sp \o NodeText(members[1].value, sp)
         \o (IF Len(members) > 1 THEN <<Punct(",")>> \o sp ELSE <<>>)
         \o MembersText(Tail(members), sp)

GraphText(members, sp) == <<Punct("{")>> \o MembersText(members, sp) \o <<Punct("}")>>

\* The format tags of an uploaded file whose graph has at most n nodes.
FormatTagsPool(n) ==
    {FormatTags("none", <<>>)} \cup
    {FormatTags(tag, GraphText(members, sp)) :
        tag \in {"prompt", "comment"}, members \in MembersUpTo(n), sp \in Spacings}

Response(status, error, body) == [status |-> status, error |-> error, body |-> body]

\* The moderation pipeline and the two harnesses above are left alone.
notServer == <<cfgVars, fsVars, idVars, pc, extVars, loopVars, endVars, histVars, predVars,
               graphVars>>

PipelineIdle ==
    /\ enableModeration = TRUE
    /\ enableAutoTagging = FALSE
    /\ ollamaAvailable = FALSE
    /\ checkPc = "done"
    /\ reliable = TRUE
    /\ frameText = [v \in Videos |-> [i \in Frames |-> DefaultText]]
    /\ kind = [r \in Runs |-> "classify"]
    /\ video = [r \in Runs |-> r]
    /\ pc = [r \in Runs |-> "absent"]
    /\ InitRest
    /\ PredIdle
    /\ GraphIdle

\* A request arrives, with or without a file; multer has stored the file.
InitUpload ==
    /\ reqFile \in BOOLEAN
    /\ inUploadDir = reqFile
    /\ formatTags \in FormatTagsPool(1)
    /\ metadata = Undefined
    /\ basicTags = <<>>
    /\ analysis = Undefined
    /\ allTags = <<>>
    /\ videosTable = <<>>
    /\ tagsTable = <<>>
    /\ srvPc = "request"
    /\ response = Undefined
    /\ PipelineIdle

\* app.post('/api/upload'): the test for req.file.
postUpload ==
    /\ srvPc = "request"
    /\ IF ~reqFile
       THEN /\ response' = Response(400, "No video file provided", <<>>)
            /\ srvPc' = "responded"
       ELSE /\ srvPc' = "extract"
            /\ UNCHANGED response
    /\ UNCHANGED <<reqFile, inUploadDir, formatTags, metadata, basicTags, analysis, allTags,
                   videosTable, tagsTable, notServer>>

\* const metadata = await extractComfyUIMetadata(videoPath)
extractMetadata ==
    /\ srvPc = "extract"
    /\ metadata' = extractComfyUIMetadata(formatTags)
    /\ srvPc' = "extracted"
    /\ UNCHANGED <<reqFile, inUploadDir, formatTags, basicTags, analysis, allTags,
                   videosTable, tagsTable, response, notServer>>

\* const basicTags = generateBasicTags(req.file.originalname, metadata)
generateBasicTags ==
    /\ srvPc = "extracted"
    /\ basicTags' \in TagLists(BasicTagPool, MaxTags)
    /\ srvPc' = "analyze"
    /\ UNCHANGED <<reqFile, inUploadDir, formatTags, metadata, analysis, allTags,
                   videosTable, tagsTable, response, notServer>>

\* const analysis = await analyzeVideo(videoPath): both of its callees
\* catch their errors, so the call always returns this record.
analyzeVideo ==
    /\ srvPc = "analyze"
    /\ \E contentClassification \in Verdicts, aiTagList \in TagLists(AiTagPool, MaxTags) :
          analysis' = Object(("contentClassification" :> contentClassification)
                             @@ ("aiTags" :> aiTagList))
    /\ srvPc' = "check"
    /\ UNCHANGED <<reqFile, inUploadDir, formatTags, metadata, basicTags, allTags,
                   videosTable, tagsTable, response, notServer>>

\* if (!analysis.moderation.approved) { unlink; 400 'Video rejected' }:
\* reading a member of undefined throws into the handler's catch block.
checkApproved ==
    /\ srvPc = "check"
    /\ LET moderation == Get(analysis, "moderation")
       IN  IF moderation.t \in {"undefined", "null"}
           THEN /\ srvPc' = "catch"
                /\ UNCHANGED <<inUploadDir, response>>
           ELSE IF ~Truthy(Get(moderation, "approved"))
           THEN /\ inUploadDir' = FALSE
                /\ response' = Response(400, "Video rejected", <<>>)
                /\ srvPc' = "responded"
           ELSE /\ srvPc' = "approved"
                /\ UNCHANGED <<inUploadDir, response>>
    /\ UNCHANGED <<reqFile, formatTags, metadata, basicTags, analysis, allTags,
                   videosTable, tagsTable, notServer>>

\* catch (error): unlink the file, an error of unlink being logged only,
\* then answer 500 'Upload failed'.
catchError ==
    /\ srvPc = "catch"
    /\ \E unlinked_ \in BOOLEAN :
          inUploadDir' = IF reqFile /\ unlinked_ THEN FALSE ELSE inUploadDir
    /\ response' = Response(500, "Upload failed", <<>>)
    /\ srvPc' = "responded"
    /\ UNCHANGED <<reqFile, formatTags, metadata, basicTags, analysis, allTags,
                   videosTable, tagsTable, notServer>>

NextUpload ==
    \/ postUpload
    \/ extractMetadata
    \/ generateBasicTags
    \/ analyzeVideo
    \/ checkApproved
    \/ catchError

SpecUpload == InitUpload /\ [][NextUpload]_vars

\* database.js createVideo: the row keeps JSON.stringify(metadata).
createVideo ==
    /\ srvPc = "approved"
    /\ videosTable' = Append(videosTable,
                             [metadata |-> IF Truthy(metadata) THEN JSONStringify(metadata)
                                           ELSE <<Lit("null")>>])
    /\ srvPc' = "created"
    /\ UNCHANGED <<reqFile, inUploadDir, formatTags, metadata, basicTags, analysis, allTags,
                   tagsTable, response, notServer>>

\* database.js getVideoWithTags, the metadata column: JSON.parse.
getVideoWithTags(id) ==
    IF id \in 1..Len(videosTable)
    THEN [metadata |-> JSONParse(videosTable[id].metadata).value]
    ELSE Null

\* app.get('/api/videos/:id/workflow') for the video just created.
getWorkflow ==
    /\ srvPc = "created"
    /\ LET row == getVideoWithTags(Len(videosTable))
           workflow == Member(Member(row.metadata, "comfyui"), "workflow")
       IN  response' =
             IF ~Truthy(workflow)
             THEN Response(404, "No ComfyUI workflow found for this video", <<>>)
             ELSE Response(200, "", JSONStringify(workflow))
    /\ srvPc' = "served"
    /\ UNCHANGED <<reqFile, inUploadDir, formatTags, metadata, basicTags, analysis, allTags,
                   videosTable, tagsTable, notServer>>

\* An upload the moderation check let through, with the metadata
\* extracted from its format tags.
InitWorkflow ==
    /\ reqFile = TRUE
    /\ inUploadDir = TRUE
    /\ formatTags \in FormatTagsPool(MaxEntries)
    /\ metadata = extractComfyUIMetadata(formatTags)
    /\ basicTags = <<>>
    /\ analysis = Undefined
    /\ allTags = <<>>
    /\ videosTable = <<>>
    /\ tagsTable = <<>>
    /\ srvPc = "approved"
    /\ response = Undefined
    /\ PipelineIdle

NextWorkflow == createVideo \/ getWorkflow

SpecWorkflow == InitWorkflow /\ [][NextWorkflow]_vars

\* const allTags = [...basicTags, ...analysis.aiTags]
combineTags ==
    /\ srvPc = "created"
    /\ allTags' = basicTags \o Get(analysis, "aiTags")
    /\ srvPc' = IF Len(basicTags \o Get(analysis, "aiTags")) > 0 THEN "addTags" ELSE "tagsAdded"
    /\ UNCHANGED <<reqFile, inUploadDir, formatTags, metadata, basicTags, analysis,
                   videosTable, tagsTable, response, notServer>>

\* database.js addTags(videoId, allTags): one turn of its loop, one
\* insertTag.run.
addTags ==
    /\ srvPc = "addTags"
    /\ LET tag == allTags[Len(tagsTable) + 1]
       IN  tagsTable' = Append(tagsTable,
              [video_id |-> Len(videosTable),
               tag_name |-> toLowerCase(tag.name),
               confidence |-> IF tag.confidence # 0 THEN tag.confidence ELSE 10,
               source |-> IF tag.source # "" THEN tag.source ELSE "auto"])
    /\ srvPc' = IF Len(tagsTable) + 1 = Len(allTags) THEN "tagsAdded" ELSE "addTags"
    /\ UNCHANGED <<reqFile, inUploadDir, formatTags, metadata, basicTags, analysis, allTags,
                   videosTable, response, notServer>>

\* An upload the moderation check let through, after createVideo.
InitTags ==
    /\ reqFile = TRUE
    /\ inUploadDir = TRUE
    /\ formatTags = FormatTags("none", <<>>)
    /\ metadata = extractComfyUIMetadata(formatTags)
    /\ basicTags \in TagLists(BasicTagPool, MaxTags)
    /\ \E contentClassification \in {v \in Verdicts : v.isLegal},
          aiTagList \in TagLists(AiTagPool, MaxTags) :
          analysis = Object(("contentClassification" :> contentClassification)
                            @@ ("aiTags" :> aiTagList))
    /\ allTags = <<>>
    /\ videosTable = <<[metadata |-> JSONStringify(metadata)]>>
    /\ tagsTable = <<>>
    /\ srvPc = "created"
    /\ response = Undefined
    /\ PipelineIdle

NextTags == combineTags \/ addTags

SpecTags == InitTags /\ [][NextTags]_vars

(***************************************************************************)
(* Claims                                                                  *)
(***************************************************************************)

ClassifyRuns == {r \in Runs : kind[r] = "classify" /\ pc[r] # "absent"}

Range(q) == {q[k] : k \in 1..Len(q)}

\* The predicate on a text the classifier returned.
Illegal(t) == Analysis[t].hasIllegalContent

\* A text the classifier returned to run r satisfies the predicate.
IllegalSeen(r) == \E k \in 1..Len(seen[r]) : Illegal(seen[r][k])

\* The frames run r handed to the classifier (the reads that succeeded).
Handed(r) == SelectSeq(reads[r], LAMBDA e : e[2] # NoFile)

\* C1: once the predicate is true for the text of one frame, that text is
\* the last one the run obtains, the run is cleaning up or has returned the
\* REJECTED verdict with the fixed reason, whatever was parsed, and from
\* then on no further frame is read for the classifier.
C1_HardRejectShortCircuits ==
    [][\A r \in Runs :
          /\ (kind[r] = "classify" /\ IllegalSeen(r)') =>
                /\ Illegal(seen'[r][Len(seen'[r])])
                /\ \A k \in 1..(Len(seen'[r]) - 1) : ~Illegal(seen'[r][k])
                /\ pc'[r] \in {"cleanup", "done"}
                /\ pc'[r] = "done" => verdict'[r] = RejectedVerdict
          /\ (kind[r] = "classify" /\ IllegalSeen(r)) => reads'[r] = reads[r]]_vars

\* C1 witness: a rejection after an earlier frame raised the rating, with a
\* frame of the run never read.
C1_Witness ==
    /\ pc[1] = "done"
    /\ verdict[1] = RejectedVerdict
    /\ maxRating[1] = "R"
    /\ Len(seen[1]) = 2
    /\ Len(reads[1]) = 2
    /\ Len(framePaths[1]) = 3

\* A restricted-subject keyword and an explicit-sexual keyword occur in t
\* apart from each other, with at least one line break between them.
SplitAcrossLines(t) ==
    \E a \in illegalKeywords, b \in sexualAlternatives :
        \E i \in 1..Len(t), j \in 1..Len(t) :
            /\ MatchAt(t, a, i)
            /\ MatchAt(t, b, j)
            /\ \/ /\ i + Len(a) <= j
                  /\ \E k \in (i + Len(a))..(j - 1) : CharAt(t, k) \in LineTerminators
               \/ /\ j + Len(b) <= i
                  /\ \E k \in (j + Len(b))..(i - 1) : CharAt(t, k) \in LineTerminators

\* C2: the predicate classifyContent applies is true of a text in which a
\* restricted-subject keyword and an explicit-sexual keyword are separated
\* by one or more line breaks.
C2_TrueAcrossLineBreaks ==
    (pres.has # "unset" /\ SplitAcrossLines(ptext)) => pres.has = "true"

\* The frames of the video of run r would be described by a text that
\* satisfies the predicate.
IllegalFrame(r) == \E i \in Frames : Illegal(frameText[video[r]][i])

\* The run was called with moderation disabled or with the flag false.
FailOpen(r) == ~enableModeration \/ ~availAtCall[r]

\* C3 as stated: also with moderation disabled or the backend-available
\* flag false, a video with a frame whose text satisfies the predicate
\* does not end in an approving verdict.
C3_RejectedWhateverTheConfiguration ==
    \A r \in ClassifyRuns :
        (pc[r] = "done" /\ FailOpen(r) /\ IllegalFrame(r)) => ~verdict[r].isLegal

\* C3 as amended: a text that the classifier returns during a run and that
\* satisfies the predicate always ends the run REJECTED; such a text is
\* only ever obtained with moderation enabled and the flag true at the
\* call, and a run called otherwise obtains no text and approves.
C3_RejectedOnceInspected ==
    \A r \in ClassifyRuns :
        /\ IllegalSeen(r) => ~FailOpen(r)
        /\ (IllegalSeen(r) /\ pc[r] = "done") => verdict[r] = RejectedVerdict
        /\ (FailOpen(r) /\ pc[r] = "done") => (seen[r] = <<>> /\ verdict[r].isLegal)

\* C3 witness: a run rejected on the first text it obtained.
C3_Witness ==
    /\ pc[1] = "done"
    /\ Len(seen[1]) = 1
    /\ IllegalSeen(1)
    /\ verdict[1].rating = "REJECTED"

OneLine(t) == \A k \in 1..Len(t) : CharAt(t, k) \notin LineTerminators

\* C4: on a text without line breaks the predicate is true exactly when a
\* restricted-subject keyword and an explicit-sexual keyword both occur.
C4_OneLineCooccurrence ==
    (pres.has # "unset" /\ OneLine(ptext)) =>
        (pres.has = "true" <=>
            /\ \E a \in illegalKeywords : Includes(ptext, a)
            /\ \E b \in sexualAlternatives : Includes(ptext, b))

RatingOfLevel(n) == CHOOSE x \in Ratings : ratingLevels[x] = n

\* The maximum, in the order of ratingLevels, of the ratings in q.
MaxParsed(q) ==
    RatingOfLevel(Max({0} \cup {ratingLevels[q[k]] : k \in {n \in 1..Len(q) : q[n] # NoMatch}}))

\* C5: in every step the running rating is the maximum of the ratings parsed
\* from the texts inspected so far (SAFE when none), it does not decrease,
\* and a run that returns after the loop returns that maximum.
C5_RunningMaximum ==
    [][\A r \in Runs :
          /\ maxRating[r] = MaxParsed(parsed[r])
          /\ maxRating'[r] = MaxParsed(parsed'[r])
          /\ ratingLevels[maxRating'[r]] >= ratingLevels[maxRating[r]]
          /\ (pc'[r] = "done" /\ after'[r] = "final") =>
                verdict'[r].rating = MaxParsed(parsed'[r])]_vars

\* C5 witness: ratings SAFE, R, PG-13 in that order give R.
C5_Witness ==
    /\ pc[1] = "done"
    /\ parsed[1] = <<"SAFE", "R", "PG-13">>
    /\ verdict[1].rating = "R"
    /\ verdict[1].isLegal

\* C6: a run called with moderation disabled or with the flag false has
\* returned SAFE, approved, with one of the two explanations, and has
\* started no extraction, written no frame and read none.
C6_FailOpenWithoutInspection ==
    \A r \in ClassifyRuns :
        (pc[r] # "idle" /\ FailOpen(r)) =>
            /\ pc[r] = "done"
            /\ verdict[r].rating = "SAFE"
            /\ verdict[r].isLegal
            /\ verdict[r].reason \in {"Content moderation disabled",
                                      "Ollama not available - defaulting to safe"}
            /\ \A i \in Frames : ext[r][i] = "idle" /\ ~wrote[r][i]
            /\ framesExtracted[r] = 0
            /\ reads[r] = <<>>
            /\ seen[r] = <<>>

\* C6 witness: moderation on, the flag still false at the call and set
\* only afterwards.
C6_Witness ==
    /\ pc[1] = "done"
    /\ enableModeration
    /\ ~availAtCall[1]
    /\ ollamaAvailable
    /\ verdict[1] = UnavailableVerdict

\* extractFrames of run r has counted every frame and has no path.
ExtractionFailed(r) ==
    framesExtracted[r] = numFramesOf(r) /\ framePaths[r] = <<>>

\* C7: when frame extraction fails or a step of the loop throws, the run
\* has returned SAFE, approved; what a finished run hands to its caller is
\* always a verdict, never an exception.
C7_ErrorsFailSafe ==
    \A r \in ClassifyRuns :
        /\ (threw[r] # "-" \/ ExtractionFailed(r)) =>
              /\ pc[r] = "done"
              /\ verdict[r].rating = "SAFE"
              /\ verdict[r].isLegal
        /\ pc[r] = "done" => verdict[r].rating \in Ratings \cup {"REJECTED"}

\* C7 witness: the loop throws after a frame was rated R.
C7_Witness ==
    /\ pc[1] = "done"
    /\ threw[1] = "loop"
    /\ maxRating[1] = "R"
    /\ verdict[1] = ErrorVerdict

\* C8: a run that returns after the loop or from the rejection branch has
\* attempted to delete every path extractFrames gave it, and returns the
\* verdict of that branch whether or not the files are gone.
C8_CleanupBeforeVerdict ==
    \A r \in ClassifyRuns :
        (pc[r] = "done" /\ after[r] \in {"final", "reject"}) =>
            /\ unlinked[r] = Range(framePaths[r])
            /\ verdict[r].isLegal = (after[r] = "final")
            /\ verdict[r].rating = IF after[r] = "reject" THEN "REJECTED" ELSE maxRating[r]

\* C8 witness: a rejection returned although a deletion failed.
C8_Witness ==
    /\ pc[1] = "done"
    /\ after[1] = "reject"
    /\ verdict[1] = RejectedVerdict
    /\ \E i \in unlinked[1] : files[i] # NoFile

\* C9: every frame a run reads for the classifier exists and was written
\* by that run.
C9_RunsKeepToTheirFrames ==
    \A r \in Runs : \A k \in 1..Len(reads[r]) : reads[r][k][2] = r

\* C10: at most one screenshot command of a run is in flight, at most one
\* classifier call, and the frames are handed over in increasing order.
C10_OneFrameAtATime ==
    \A r \in ClassifyRuns :
        /\ Cardinality({i \in Frames : ext[r][i] \in {"running", "ended"}}) <= 1
        /\ pc[r] = "classifying" => Len(reads[r]) = idx[r]
        /\ \A k \in 1..Len(Handed(r)) : \A l \in 1..Len(Handed(r)) :
              k < l => Handed(r)[k][1] < Handed(r)[l][1]

(***************************************************************************)
(* Claims about parseComfyUIWorkflow                                       *)
(***************************************************************************)

\* The argument is a graph (a keyed collection of nodes).
IsGraph == workflowData.t = "object"

\* Every scalar member is null and loras is empty.
AllEmpty(p) ==
    /\ \A m \in DOMAIN p \ {"loras", "aspectRatio"} : p[m] = Null
    /\ p.loras = <<>>
    /\ p.aspectRatio = Undefined

\* C11: called with null, undefined, a string, a number, an array or an
\* empty object, parseComfyUIWorkflow returns the record with every scalar
\* member null and loras empty.
C11_NoGraphGivesEmptyRecord ==
    (wfPc = "returned" /\ (~IsGraph \/ workflowData.entries = <<>>)) => AllEmpty(parsedWf)

\* C12: parseComfyUIWorkflow never raises on a keyed collection of
\* node-like records, whatever the types of the fields.
C12_NeverRaises == IsGraph => wfPc # "threw"

\* C13: the nodes of a graph are visited in the order the graph declares
\* them.
C13_VisitsInDeclaredOrder ==
    (IsGraph /\ wfPc \in {"forEach", "returned", "threw"}) => nodes = workflowData.entries

\* The values forEach has visited or will visit, in order.
Values == [k \in 1..Len(nodes) |-> nodes[k].value]

ClassIs(node, classType) == Get(node, "class_type") = Str(classType)

WildcardNodes == {k \in 1..Len(nodes) : ClassIs(Values[k], "ImpactWildcardProcessor")}

PopulatedText(k) == Get(Get(Values[k], "inputs"), "populated_text")

PopulatedWildcards == {k \in WildcardNodes : Truthy(PopulatedText(k))}

EncoderTexts ==
    {Get(Get(Values[k], "inputs"), "text") :
        k \in {j \in 1..Len(nodes) : ClassIs(Values[j], "CLIPTextEncode")}}

Target(ref) ==
    LET hit == {k \in 1..Len(nodes) : nodes[k].key = ref.items[1]}
    IN  IF hit = {} THEN Undefined ELSE Values[CHOOSE k \in hit : TRUE]

\* The graph is one text encoder whose text is a reference, plus nodes
\* that set no prompt.
OneReferringEncoder(k) ==
    /\ ClassIs(Values[k], "CLIPTextEncode")
    /\ Get(Get(Values[k], "inputs"), "text").t = "array"
    /\ WildcardNodes = {}
    /\ \A j \in 1..Len(nodes) : ClassIs(Values[j], "CLIPTextEncode") => j = k

\* C15: a text encoder whose text refers to a node with a string value
\* gets that string as the prompt; a reference to a missing node or field
\* leaves the prompt null.
C15_ReferenceResolved ==
    (IsGraph /\ wfPc = "returned") =>
        \A k \in 1..Len(nodes) :
            OneReferringEncoder(k) =>
                LET value == Get(Get(Target(Get(Get(Values[k], "inputs"), "text")),
                                     "inputs"), "value")
                IN  parsedWf.prompt = IF value.t = "string" THEN value ELSE Null

ModelNodes ==
    {k \in 1..Len(nodes) :
        \E c \in {"WanVideoModelLoader", "UnetLoaderGGUF", "CheckpointLoaderSimple"} :
            ClassIs(Values[k], c)}

UnetName(k) == Get(Get(Values[k], "inputs"), "unet_name")

\* C16: two quantized-unet loaders with distinct names without 'HIGH', and
\* no other model-setting node, give '<name1> + <name2>' in visiting order.
C16_TwoUnetNamesJoined ==
    (IsGraph /\ wfPc = "returned") =>
        \A k \in ModelNodes, l \in ModelNodes :
            ( /\ ModelNodes = {k, l}
              /\ k < l
              /\ ClassIs(Values[k], "UnetLoaderGGUF")
              /\ ClassIs(Values[l], "UnetLoaderGGUF")
              /\ UnetName(k) # UnetName(l)
              /\ ~StringIncludes(UnetName(k).s, "HIGH")
              /\ ~StringIncludes(UnetName(l).s, "HIGH") ) =>
                parsedWf.model = Str(UnetName(k).s \o " + " \o UnetName(l).s)

IsSelector(node) ==
    ClassIs(node, "WanVideoLoraSelect") \/ ClassIs(node, "WanVideoLoraSelectMulti")

LoraName(node) == Get(Get(node, "inputs"), "lora")

\* The names of the selector nodes among the first n visited, in order, the
\* sentinel 'none' left out.
SelectedNames(n) ==
    LET sel == SelectSeq(SubSeq(Values, 1, n),
                         LAMBDA v : IsSelector(v) /\ LoraName(v) # Str("none"))
    IN  [k \in 1..Len(sel) |-> LoraName(sel[k])]

\* C17: after every visit the lora entries are, one per node and in
\* visiting order, the names of the selector nodes visited so far whose
\* name is not 'none'.
C17_OneEntryPerSelector ==
    (IsGraph /\ wfPc \in {"forEach", "returned"}) =>
        /\ Len(parsedWf.loras) = Len(SelectedNames(ni - 1))
        /\ \A k \in 1..Len(parsedWf.loras) :
              parsedWf.loras[k].name = SelectedNames(ni - 1)[k]

\* C17 witness: three selectors, one of them 'none', two entries kept in
\* visiting order.
C17_Witness ==
    /\ IsGraph
    /\ wfPc = "returned"
    /\ Len(nodes) = 3
    /\ \A k \in 1..3 : IsSelector(Values[k])
    /\ LoraName(Values[2]) = Str("none")
    /\ Len(parsedWf.loras) = 2
    /\ parsedWf.loras[1].name = Str("loraB")
    /\ parsedWf.loras[2].name = Str("loraA")

\* The names of the rows of the tags table.
StoredNames == {tagsTable[k].tag_name : k \in 1..Len(tagsTable)}

RowsNamed(name) == {k \in 1..Len(tagsTable) : tagsTable[k].tag_name = name}

GraphExtracted ==
    /\ ExtractedGraph(formatTags).ok
    /\ ExtractedGraph(formatTags).value.entries # <<>>

C20_RejectedUploadRefused ==
    (srvPc = "responded" /\ Get(analysis, "contentClassification") = RejectedVerdict) =>
        /\ response.status = 400
        /\ response.error = "Video rejected"
        /\ ~inUploadDir
        /\ videosTable = <<>>
        /\ tagsTable = <<>>

\* ---------------------------------------------------------------------------
\* Frame extraction, verdict and availability claims
\* ---------------------------------------------------------------------------

InPaths(r, i) == i \in Range(framePaths[r])

\* C21: a frame path enters the result of extractFrames only in the step of
\* the 'end' handler that found the file readable after the completion
\* signal; a frame whose file was not readable when the polling gave up is
\* marked failed, is never in the result, and only frames of the result are
\* handed to the classifier.
C21_PathOnlyAfterReadable ==
    [][\A r \in Runs : \A i \in Frames :
          /\ (InPaths(r, i)' /\ ~InPaths(r, i))
                => (ext[r][i] = "ended" /\ files[i] # NoFile /\ ext'[r][i] = "ok")
          /\ (ext[r][i] = "ended" /\ ext'[r][i] # "ended" /\ files[i] = NoFile)
                => (ext'[r][i] = "failed" /\ ~InPaths(r, i)')
          /\ ext[r][i] = "failed" => ~InPaths(r, i)'
          /\ (Len(reads'[r]) > Len(reads[r]) /\ reads'[r][Len(reads'[r])][1] = i)
                => InPaths(r, i)]_vars

\* The file of one frame was not readable when the polling gave up and the
\* frame is left out, while another frame of the same run was handed to the
\* classifier.
C21_Witness ==
    \E r \in ClassifyRuns : \E i, j \in Frames :
        /\ ext[r][i] = "failed" /\ ~wrote[r][i] /\ ~InPaths(r, i)
        /\ InPaths(r, j) /\ \E k \in 1..Len(reads[r]) : reads[r][k][1] = j

\* The reason the loop ties to the maximum of the ratings parsed from the
\* texts ts: the one of the first text that reached it.
FirstAt(q, x) == Min({k \in 1..Len(q) : q[k] = x})

ReasonOfFirstMax(ts, q) ==
    IF MaxParsed(q) = "SAFE" THEN "Clean content"
    ELSE LET t == ts[FirstAt(q, MaxParsed(q))]
         IN  IF Analysis[t].frameReason # "" THEN Analysis[t].frameReason
             ELSE "Content classified as " \o MaxParsed(q)

\* C24 as stated: every return without rejection carries 'Clean content'
\* when no inspected frame was rated above SAFE, and otherwise the reason of
\* the frame that first reached the maximum.
C24_ReasonOfEveryApproval ==
    \A r \in ClassifyRuns :
        (pc[r] = "done" /\ verdict[r].isLegal) =>
            verdict[r].reason = ReasonOfFirstMax(seen[r], parsed[r])

\* C24: a return without rejection from the end of the per-frame loop
\* carries 'Clean content' when no inspected frame was rated above SAFE, and
\* otherwise the reason of the frame that first reached the final maximum:
\* its REASON text, or 'Content classified as <rating>' when it had none.
C24_ReasonTiedToMaximum ==
    \A r \in ClassifyRuns :
        (pc[r] = "done" /\ after[r] = "final") =>
            /\ verdict[r].isLegal
            /\ verdict[r].reason = ReasonOfFirstMax(seen[r], parsed[r])

\* Two frames rated R with different reasons, then a lower-rated frame: the
\* reason returned is the one of the first.
C24_Witness ==
    /\ pc[1] = "done" /\ after[1] = "final"
    /\ seen[1] = <<"RATING: R\nREASON: nudity", "RATING: R\nREASON: gore", "rating: pg-13">>
    /\ verdict[1].reason = "nudity"

\* The text run r obtains in this step, when it obtains one.
Obtains(r, t) == Len(seen'[r]) = Len(seen[r]) + 1 /\ seen'[r][Len(seen'[r])] = t

\* The step in which run r is given no text for the frame (null).
SkipsFrame(r) ==
    /\ pc[r] = "classifying" /\ pc'[r] # "classifying"
    /\ seen'[r] = seen[r] /\ threw'[r] = threw[r]

\* C25: a text that satisfies the predicate starts the rejection in the step
\* that obtains it, whether or not a rating was parsed from it; a text from
\* which no rating is parsed, and an absent text, leave the running rating
\* and the reason as they were and throw nothing.
C25_PredicateIndependentOfRating ==
    [][\A r \in Runs : kind[r] = "classify" =>
          /\ \A t \in Texts : Obtains(r, t) =>
                /\ Illegal(t) => (pc'[r] = "cleanup" /\ after'[r] = "reject")
                /\ ~Illegal(t) => after'[r] # "reject"
                /\ Analysis[t].ratingMatch = NoMatch =>
                      /\ maxRating'[r] = maxRating[r]
                      /\ ratingReason'[r] = ratingReason[r]
                      /\ threw'[r] = threw[r]
          /\ SkipsFrame(r) =>
                /\ maxRating'[r] = maxRating[r]
                /\ ratingReason'[r] = ratingReason[r]
                /\ pc'[r] \in {"loop", "cleanup"}
                /\ after'[r] # "reject"
          /\ (pc[r] = "cleanup" /\ pc'[r] = "done" /\ after[r] = "reject") =>
                verdict'[r] = RejectedVerdict]_vars

\* A frame rated R, an absent text, then a text without a RATING line that
\* satisfies the predicate: REJECTED is returned, the running rating still R.
C25_Witness ==
    /\ pc[1] = "done"
    /\ Len(reads[1]) = 3
    /\ seen[1] = <<"RATING: R\nREASON: nudity", "naked child">>
    /\ maxRating[1] = "R" /\ ratingReason[1] = "nudity"
    /\ verdict[1] = RejectedVerdict

\* C27: once a run that extracted frames has returned, on whichever path,
\* none of the frame files it wrote is left in the frames directory.
C27_NoFrameFileRemains ==
    \A r \in ClassifyRuns :
        (pc[r] = "done" /\ Len(framePaths[r]) > 0) =>
            \A i \in Frames : files[i] # r

\* The step in which classifyContent is called for run r.
Called(r) == kind[r] = "classify" /\ pc[r] = "idle" /\ pc'[r] # "idle"

\* C29: the flag is false until the startup check has completed, changes
\* only in the step that completes the check and only to true, and is never
\* reset; a call made while the check is pending returns a fail-open
\* verdict at once, and "unavailable" is returned only by a call made while
\* the flag is false, never by a run that started with the flag true,
\* whatever the backend does afterwards.
C29_FlagOnlyRises ==
    [][/\ checkPc = "pending" => ~ollamaAvailable
       /\ ollamaAvailable => ollamaAvailable'
       /\ ollamaAvailable' # ollamaAvailable => (checkPc = "pending" /\ checkPc' = "done")
       /\ \A r \in Runs :
             /\ (Called(r) /\ checkPc = "pending") =>
                   /\ pc'[r] = "done"
                   /\ verdict'[r] = IF enableModeration THEN UnavailableVerdict
                                    ELSE DisabledVerdict
             /\ (verdict'[r] = UnavailableVerdict /\ verdict[r] # UnavailableVerdict) =>
                   (Called(r) /\ ~ollamaAvailable)
             /\ (pc[r] \notin {"idle", "absent"} /\ availAtCall[r]) =>
                   verdict'[r] # UnavailableVerdict]_vars

\* The check completed with a vision model listed before the call; the
\* backend then answered no frame (every result absent), and the run
\* returned the verdict of an inspected video, not "unavailable".
C29_Witness ==
    /\ pc[1] = "done" /\ availAtCall[1] /\ enableModeration
    /\ Len(reads[1]) = ClassifyNumFrames /\ seen[1] = <<>>
    /\ verdict[1].reason = "Clean content"

\* C30: the verdict of every run that has returned, on whichever path, has
\* one of the five ratings, and it is not approved exactly when the rating
\* is REJECTED.
C30_VerdictShape ==
    \A r \in ClassifyRuns :
        pc[r] = "done" =>
            /\ verdict[r].rating \in {"SAFE", "PG-13", "R", "XXX", "REJECTED"}
            /\ verdict[r].isLegal \in BOOLEAN
            /\ ~verdict[r].isLegal <=> verdict[r].rating = "REJECTED"

\* A run returned PG-13, approved, from the end of the loop.
C30_Witness ==
    /\ pc[1] = "done" /\ after[1] = "final"
    /\ verdict[1].rating = "PG-13" /\ verdict[1].isLegal

\* extractFrames of run r has returned to classifyContent, one way or the
\* other.
ExtractSettled(r) ==
    \/ pc[r] \in {"loop", "classifying", "cleanup"}
    \/ pc[r] = "done" /\ (after[r] # "-" \/ threw[r] # "-")

AllSignalled(r) ==
    /\ framesExtracted[r] = numFramesOf(r)
    /\ \A i \in 1..numFramesOf(r) : ext[r][i] \in {"ok", "failed"}

Settles(r) == pc[r] = "extracting" /\ pc'[r] # "extracting"

IsEncoder(k) == ClassIs(Values[k], "CLIPTextEncode")

EncoderText(k) == Get(Get(Values[k], "inputs"), "text")

\* The text holds one of the negative-marker keywords.
HasMarker(text) ==
    /\ text.t = "string"
    /\ StringIncludes(text.s, LowQualityMarker) \/ StringIncludes(text.s, "worst quality")

\* The text-encoder nodes with a marked text among the first n visited.
Marked(n) == {k \in 1..n : IsEncoder(k) /\ HasMarker(EncoderText(k))}

\* C22: after every visit negativePrompt is the text of the last visited
\* text-encoder node whose text holds a negative marker (null when there
\* was none), whichever marker it is and whether or not prompt was set when
\* the node was visited, and prompt is no such text.
C22_MarkedTextIsNegativePrompt ==
    (IsGraph /\ wfPc \in {"forEach", "returned"}) =>
        /\ parsedWf.negativePrompt =
              IF Marked(ni - 1) = {} THEN Null ELSE EncoderText(Max(Marked(ni - 1)))
        /\ ~HasMarker(parsedWf.prompt)

\* A string of more than 10 characters without a negative marker.
Qualifies(text) == text.t = "string" /\ Len(text.s) > 10 /\ ~HasMarker(text)

Qualifying(n) == {k \in 1..n : IsEncoder(k) /\ Qualifies(EncoderText(k))}

Selected(n) ==
    SelectSeq(SubSeq(Values, 1, n), LAMBDA v : IsSelector(v) /\ LoraName(v) # Str("none"))

\* The value of the first of the fields strength, strength_0 that is present
\* on the node, 1.0 when neither is.
FirstPresentStrength(node) ==
    LET inputs == Get(node, "inputs")
    IN  IF Get(inputs, "strength") # Undefined THEN Get(inputs, "strength")
        ELSE IF Get(inputs, "strength_0") # Undefined THEN Get(inputs, "strength_0")
        ELSE Num(1)

\* C26: the strength of every entry appended for a selector node is the
\* value of the first of strength, strength_0 present on the node, 0
\* included, and 1.0 only when neither is present.
C26_StrengthIsFirstPresentField ==
    (IsGraph /\ wfPc \in {"forEach", "returned"}) =>
        \A k \in 1..Min({Len(parsedWf.loras), Len(Selected(ni - 1))}) :
            parsedWf.loras[k].strength = FirstPresentStrength(Selected(ni - 1)[k])

====
